---- MODULE Spec2Model ----
(***************************************************************************)
(* Model of the OGC API - Moving Features server (pygeoapi/api.py and      *)
(* pygeoapi/models/process_data.py): the parameter validators, the         *)
(* resource controllers and the data access layer over the temporal store. *)
(***************************************************************************)
EXTENDS Integers, Sequences, FiniteSets, Bags, TLC

VARIABLES
    bboxIn,          \* the raw bbox query parameter of the request
    bboxOut,         \* outcome of the bbox step of the controller
    dtIn,            \* the raw datetime query parameter of the request
    dtOut,           \* outcome of the datetime step of the controller
    leafIn,          \* the raw leaf query parameter of the request
    leafOut,         \* outcome of the leaf step of the controller
    collection,      \* table collection: set of collection ids
    mfeature,        \* table mfeature: rows (collection_id, mfeature_id)
    tgeometry,       \* table tgeometry: rows
    tproperties,     \* table tproperties: rows
    nextId,          \* the store's id generator (ids are never reused)
    session,         \* pd.connection of the request being answered
    resp,            \* the response being returned, NoResp between requests
    deleted,         \* history: the collections deleted and their features
    posts,           \* the concurrent value POSTs in progress
    reads,           \* what the GETs of the value sequences returned
    formatIn,        \* the f argument and the Accept header handed to _get_format
    formatOut,       \* what _get_format returned
    listIn,          \* the list request being paged through: endpoint, filters, limit
    listOut,         \* the pages answered so far
    geomIn,          \* the temporalGeometry handed to the dialect conversion
    geomOut          \* the temporalGeometry after each conversion

paramVars == <<bboxIn, bboxOut, dtIn, dtOut, leafIn, leafOut>>
storeVars == <<collection, mfeature, tgeometry, tproperties, nextId,
               session, resp, deleted>>
ioVars == <<formatIn, formatOut, listIn, listOut, geomIn, geomOut>>
auxVars == <<posts, reads, ioVars>>

vars == <<paramVars, storeVars, auxVars>>

(***************************************************************************)
(* Bounds                                                                  *)
(***************************************************************************)
MaxBboxLen == 7          \* longest comma-separated bbox list tried
MaxT == 4                \* instants are 0..MaxT; MaxT stands for datetime.max
MaxLeaf == 3             \* longest leaf list tried
MaxIds == 3              \* ids the store's generator hands out
MaxRows == 2             \* rows the tproperties table may hold
MaxGroup == 2            \* largest datetime_group assigned
MaxPropT == 3            \* timestamps of value sequences are 1..MaxPropT
MaxEntries == 2          \* entries of one temporalProperties body
MaxPosts == 2            \* value POSTs handled at the same time
MaxAccept == 2           \* comma-separated fragments of an Accept header
MaxLimit == 2            \* largest limit parameter of a list request
MaxOffset == 1           \* largest offset a paged listing starts at
MaxSamples == 2          \* samples of a temporalGeometry handed to the conversion

NoValue == <<>>            \* an absent list

(***************************************************************************)
(* validate_bbox and the bbox step of the controllers                      *)
(***************************************************************************)
\* the items of value.split(','): two numbers, a text float() refuses, and
\* 'nan', which float() accepts
BboxItems == {"0", "1", "x", "nan"}

\* float(c): the items that parse, and their value
NaN == -1
IsFloat(c) == c \in {"0", "1", "nan"}
Float(c) == IF c = "0" THEN 0 ELSE IF c = "1" THEN 1 ELSE NaN

\* a > b on floats: every comparison with nan is False
Gt(a, b) == a # NaN /\ b # NaN /\ a > b

BboxInputs == UNION {[1..n -> BboxItems] : n \in 1..MaxBboxLen}

\* value is the list value.split(','); indices are 1-based here
validate_bbox(value) ==
    IF Len(value) # 4 /\ Len(value) # 6
    THEN [raised |-> TRUE, bbox |-> NoValue]
    ELSE IF \E i \in 1..Len(value) : ~IsFloat(value[i])
    THEN [raised |-> TRUE, bbox |-> NoValue]
    ELSE LET bbox == [i \in 1..Len(value) |-> Float(value[i])] IN
         IF Len(bbox) = 4 /\ (Gt(bbox[2], bbox[4]) \/ Gt(bbox[1], bbox[3]))
         THEN [raised |-> TRUE, bbox |-> NoValue]
         ELSE IF Len(bbox) = 6 /\ (\/ Gt(bbox[3], bbox[6])
                                   \/ Gt(bbox[2], bbox[5])
                                   \/ Gt(bbox[1], bbox[4]))
         THEN [raised |-> TRUE, bbox |-> NoValue]
         ELSE [raised |-> FALSE, bbox |-> bbox]

BboxNotRun == [status |-> -1, code |-> "", bbox |-> NoValue]

\* the controller's bbox step: ValueError becomes 400 InvalidParameterValue
BboxParam ==
    /\ bboxIn # NoValue
    /\ bboxOut.status = -1
    /\ LET r == validate_bbox(bboxIn) IN
       bboxOut' = IF r.raised
                  THEN [status |-> 400, code |-> "InvalidParameterValue",
                        bbox |-> NoValue]
                  ELSE [status |-> 0, code |-> "", bbox |-> r.bbox]
    /\ UNCHANGED <<bboxIn, dtIn, dtOut, leafIn, leafOut>>
    /\ UNCHANGED <<storeVars, auxVars>>

(***************************************************************************)
(* Instants.  A parsed datetime is its wall-clock reading `local` and its  *)
(* UTC offset `off`; the instant it denotes is local - off.  A token is a  *)
(* parsable datetime string: dateutil fills the fields the string leaves   *)
(* out from the default it is given, so a partial date reads tok.lo with   *)
(* the defaults of datetime.min (or of the unix epoch) and tok.hi with the *)
(* defaults of datetime.max.                                               *)
(***************************************************************************)
DatetimeMin == 0
DatetimeMax == MaxT
Instants == DatetimeMin..DatetimeMax
Offsets == {-1, 0, 1}

Tokens == {t \in [lo : Instants, hi : Instants, aware : BOOLEAN, off : Offsets] :
              /\ t.lo <= t.hi /\ t.hi <= t.lo + 1
              /\ (~t.aware => t.off = 0)}
NoToken == [lo |-> 0, hi |-> 0, aware |-> FALSE, off |-> 0]

dateparse_begin(tok) == [local |-> tok.lo, aware |-> tok.aware, off |-> tok.off]
dateparse_end(tok) == [local |-> tok.hi, aware |-> tok.aware, off |-> tok.off]
dateparse_(tok) == [local |-> tok.lo, aware |-> tok.aware, off |-> tok.off]

\* if d.tzinfo is None: d = d.replace(tzinfo=pytz.UTC)
StampUTC(d) == IF d.aware THEN d ELSE [local |-> d.local, aware |-> TRUE, off |-> 0]

\* the instant an aware datetime denotes; aware datetimes compare by it
Utc(d) == d.local - d.off

\* d.strftime('%Y-%m-%d %H:%M:%S.%f'): the wall-clock fields, no offset
strftime(d) == d.local

(***************************************************************************)
(* validate_datetime and the datetime step of the controllers              *)
(***************************************************************************)
\* one side of 'start/end': '' , '..' or a datetime string
Sides == {[k |-> "empty", tok |-> NoToken], [k |-> "open", tok |-> NoToken]}
         \cup {[k |-> "inst", tok |-> t] : t \in Tokens}

\* the parameter is not given: validate_datetime(None) returns None
DatetimeNone == [kind |-> "none", b |-> [k |-> "empty", tok |-> NoToken],
                 e |-> [k |-> "empty", tok |-> NoToken]]

DatetimeInputs ==
    {[kind |-> "interval", b |-> b, e |-> e] : b \in Sides, e \in Sides}
    \cup {[kind |-> "instant", b |-> s, e |-> s] :
             s \in {[k |-> "inst", tok |-> t] : t \in Tokens}}

\* datetime(1, 1, 1, 0, 0, 0) and datetime(9999, 1, 1, 0, 0, 0), stamped UTC
OpenBegin == [local |-> DatetimeMin, aware |-> TRUE, off |-> 0]
OpenEnd == [local |-> DatetimeMax - 1, aware |-> TRUE, off |-> 0]

\* faulty variant: the range test rejects begin = end as well
datetime_invalid_ge(datetime_begin, datetime_end) ==
    Utc(datetime_begin) >= Utc(datetime_end)

datetime_invalid(datetime_begin, datetime_end) ==
    Utc(datetime_begin) > Utc(datetime_end)

validate_datetime(datetime_) ==
    IF datetime_.kind = "interval"
    THEN LET datetime_begin == IF datetime_.b.k = "inst"
                               THEN StampUTC(dateparse_begin(datetime_.b.tok))
                               ELSE OpenBegin
             datetime_end == IF datetime_.e.k = "inst"
                             THEN StampUTC(dateparse_end(datetime_.e.tok))
                             ELSE OpenEnd
         IN [raised |-> datetime_invalid(datetime_begin, datetime_end),
             begin |-> datetime_begin, end |-> datetime_end,
             text |-> <<strftime(datetime_begin), strftime(datetime_end)>>]
    ELSE LET datetime__ == StampUTC(dateparse_(datetime_.b.tok))
         IN [raised |-> FALSE, begin |-> datetime__, end |-> datetime__,
             text |-> <<strftime(datetime__), strftime(datetime__)>>]

DatetimeNotRun == [status |-> -1, code |-> "", begin |-> OpenBegin,
                   end |-> OpenBegin, text |-> NoValue]

\* the controller's datetime step: ValueError becomes 400 InvalidParameterValue
DatetimeParam ==
    /\ dtIn.kind # "none"
    /\ dtOut.status = -1
    /\ LET r == validate_datetime(dtIn) IN
       dtOut' = [status |-> IF r.raised THEN 400 ELSE 0,
                 code |-> IF r.raised THEN "InvalidParameterValue" ELSE "",
                 begin |-> r.begin, end |-> r.end, text |-> r.text]
    /\ UNCHANGED <<bboxIn, bboxOut, dtIn, leafIn, leafOut>>
    /\ UNCHANGED <<storeVars, auxVars>>

(***************************************************************************)
(* validate_leaf and the leaf step of the controllers                      *)
(***************************************************************************)
LeafTokens == {t \in Tokens : t.hi = t.lo}
LeafInputs == UNION {[1..n -> LeafTokens] : n \in 1..MaxLeaf}

\* faulty variant: only a strictly decreasing pair is refused
leaf_pair_invalid_gt(datetime_Pre, datetime_) == Utc(datetime_Pre) > Utc(datetime_)

leaf_pair_invalid(datetime_Pre, datetime_) == Utc(datetime_Pre) >= Utc(datetime_)

\* leaf_list is leaf_.split(','); the loop stops at the first bad pair
validate_leaf(leaf_list) ==
    LET bad == {i \in 2..Len(leaf_list) :
                   leaf_pair_invalid(StampUTC(dateparse_(leaf_list[i - 1])),
                                     StampUTC(dateparse_(leaf_list[i])))}
    IN [raised |-> bad # {},
        text |-> IF bad # {} THEN NoValue
                 ELSE [i \in 1..Len(leaf_list) |-> strftime(dateparse_(leaf_list[i]))]]

LeafNotRun == [status |-> -1, code |-> "", text |-> NoValue]

\* the controller's leaf step: ValueError becomes 400 InvalidParameterValue
LeafParam ==
    /\ leafIn # NoValue
    /\ leafOut.status = -1
    /\ LET r == validate_leaf(leafIn) IN
       leafOut' = [status |-> IF r.raised THEN 400 ELSE 0,
                   code |-> IF r.raised THEN "InvalidParameterValue" ELSE "",
                   text |-> r.text]
    /\ UNCHANGED <<bboxIn, bboxOut, dtIn, dtOut, leafIn>>
    /\ UNCHANGED <<storeVars, auxVars>>

(***************************************************************************)
(* The temporal store (ProcessMobilityData)                                *)
(***************************************************************************)
Names == {"a", "b"}
NoName == ""
PropTimes == 1..MaxPropT
\* the timestamp sets the requests are tried with: {1} and {2} are disjoint,
\* {1, MaxPropT} overlaps {2} as a period without sharing a timestamp
DatetimeSets == {{1}, {2}, {1, MaxPropT}}

\* one entry of a temporalProperties body: its datetimes and its property
\* names in the order of the JSON object (the datetimes key comes first)
KeyLists == {<<"a">>, <<"b">>, <<"a", "b">>}
Entries == [datetimes : DatetimeSets, keys : KeyLists]
Bodies == UNION {[1..n -> Entries] : n \in 0..MaxEntries}

Range(f) == {f[i] : i \in DOMAIN f}
SetMax(S) == CHOOSE x \in S : \A y \in S : y <= x
SetMin(S) == CHOOSE x \in S : \A y \in S : x <= y

\* faulty variant: the conflict test asks for a shared timestamp
TimestampsShared(d1, d2) == d1 \cap d2 # {}

\* period(x) && period(y): the closed extents [min, max] intersect
PeriodsOverlap(d1, d2) == SetMin(d1) <= SetMax(d2) /\ SetMin(d2) <= SetMax(d1)

Rows(T) == DOMAIN T
AddRow(T, r) == IF r \in DOMAIN T THEN [T EXCEPT ![r] = @ + 1]
                ELSE [x \in DOMAIN T \cup {r} |-> IF x = r THEN 1 ELSE T[x]]
RECURSIVE AddRows(_, _)
AddRows(T, rs) == IF rs = {} THEN T
                  ELSE LET r == CHOOSE x \in rs : TRUE
                       IN AddRows(AddRow(T, r), rs \ {r})
DeleteRows(T, gone) == [x \in DOMAIN T \ gone |-> T[x]]

Faults == {"none", "down", "query"}

\* connect() sets connection.autocommit = True: the k statements that ran
\* before the one that raised are committed
\* faulty variant: the request runs in one transaction that is rolled back
rolled_back(k) == 0
committed(k) == k

\* the rows the INSERT statements of the first n entries of a body add
RECURSIVE rowsOfEntries(_, _)
rowsOfEntries(temporalProperties, n) ==
    IF n = 0 THEN 0
    ELSE Cardinality(Range(temporalProperties[n].keys)) + rowsOfEntries(temporalProperties, n - 1)

\* getCollectionsList / getFeaturesList / gettPropertiesNameList
getCollectionsList == collection
getFeaturesList == {<<r.collection_id, r.mfeature_id>> : r \in mfeature}
gettPropertiesNameList ==
    {<<r.collection_id, r.mfeature_id, r.tproperties_name>> : r \in Rows(tproperties)}

\* faulty variant: the stored sequences with the same timestamps are not looked at
getTemporalPropertiesGroup_fresh(T, collection_id, mfeature_id, datetimes) ==
    LET temp1 == {r \in Rows(T) : /\ r.collection_id = collection_id
                                  /\ r.mfeature_id = mfeature_id}
        temp3 == SetMax({r.datetime_group : r \in temp1}) + 1
    IN IF temp1 = {} THEN {1} ELSE {temp3}

\* the values rows[0][2] can take: the query has no ORDER BY
getTemporalPropertiesGroup(T, collection_id, mfeature_id, datetimes) ==
    LET temp1 == {r \in Rows(T) : /\ r.collection_id = collection_id
                                  /\ r.mfeature_id = mfeature_id}
        temp2 == {r \in temp1 : r.datetimes = datetimes}
        temp3 == SetMax({r.datetime_group : r \in temp1}) + 1
    IN IF temp1 = {} THEN {1}
       ELSE IF temp2 = {} THEN {temp3}
       ELSE {r.datetime_group : r \in temp2}

\* the tables that can result from inserting one entry
postTemporalProperties(T, collection_id, mfeature_id, temporalProperty) ==
    {AddRows(T, {[collection_id |-> collection_id, mfeature_id |-> mfeature_id,
                  tproperties_name |-> n, datetime_group |-> datetime_group,
                  datetimes |-> temporalProperty.datetimes]
                 : n \in Range(temporalProperty.keys)})
     : datetime_group \in getTemporalPropertiesGroup(
           T, collection_id, mfeature_id, temporalProperty.datetimes)}

RECURSIVE postEach(_, _, _, _, _)
postEach(Ts, collection_id, mfeature_id, temporalProperties, i) ==
    IF i > Len(temporalProperties) THEN Ts
    ELSE postEach(UNION {postTemporalProperties(T, collection_id, mfeature_id,
                                                temporalProperties[i]) : T \in Ts},
                  collection_id, mfeature_id, temporalProperties, i + 1)

postTemporalValue(T, collection_id, mfeature_id, tproperties_name, datetimes) ==
    {AddRow(T, [collection_id |-> collection_id, mfeature_id |-> mfeature_id,
                tproperties_name |-> tproperties_name,
                datetime_group |-> datetime_group, datetimes |-> datetimes])
     : datetime_group \in getTemporalPropertiesGroup(
           T, collection_id, mfeature_id, datetimes)}

\* faulty variant: the conflict test lets every request through
canPost_unchecked(T, collection_id, mfeature_id, temporalProperties, tproperties_name) == TRUE

\* the loop variable tproperties_name of the first entry that has no name
\* given stays bound for the entries after it
RECURSIVE checkIfTemporalPropertyCanPostFrom(_, _, _, _, _, _)
checkIfTemporalPropertyCanPostFrom(T, collection_id, mfeature_id, temporalProperties, i, tproperties_name) ==
    IF i > Len(temporalProperties) THEN TRUE
    ELSE LET g_temporalProperty == temporalProperties[i]
             keys == <<"datetimes">> \o g_temporalProperty.keys
             tproperties_name_list ==
                 IF tproperties_name # NoName THEN {tproperties_name}
                 ELSE Range(keys)
             bound == IF tproperties_name # NoName THEN tproperties_name
                      ELSE keys[Len(keys)]
             rows == {r \in Rows(T) :
                        /\ r.collection_id = collection_id
                        /\ r.mfeature_id = mfeature_id
                        /\ r.tproperties_name \in tproperties_name_list
                        /\ PeriodsOverlap(r.datetimes, g_temporalProperty.datetimes)}
         IN IF rows # {} THEN FALSE
            ELSE checkIfTemporalPropertyCanPostFrom(
                     T, collection_id, mfeature_id, temporalProperties, i + 1, bound)

checkIfTemporalPropertyCanPost(T, collection_id, mfeature_id, temporalProperties, tproperties_name) ==
    checkIfTemporalPropertyCanPostFrom(T, collection_id, mfeature_id,
                                       temporalProperties, 1, tproperties_name)

WithinBounds(T) == /\ BagCardinality(T) <= MaxRows
                   /\ \A r \in Rows(T) : r.datetime_group <= MaxGroup

(***************************************************************************)
(* Responses                                                               *)
(***************************************************************************)
(***************************************************************************)
(* APIRequest._get_format.  A string is a sequence of pieces: blanks, the  *)
(* ";" separator, and words                                                *)
(***************************************************************************)
RECURSIVE lstrip(_)
lstrip(str) == IF str # <<>> /\ Head(str) = " " THEN lstrip(Tail(str)) ELSE str
RECURSIVE rstrip(_)
rstrip(str) == IF str # <<>> /\ str[Len(str)] = " " THEN rstrip(SubSeq(str, 1, Len(str) - 1)) ELSE str
strip(str) == rstrip(lstrip(str))

\* t.split(';')[0]
RECURSIVE split_first(_)
split_first(t) == IF t = <<>> \/ Head(t) = ";" THEN <<>> ELSE <<Head(t)>> \o split_first(Tail(t))

\* FORMAT_TYPES, an OrderedDict: fmts and mimes are its keys and values
fmts == <<<<"html">>, <<"jsonld">>, <<"json">>>>
mimes == <<<<"text/html">>, <<"application/ld+json">>, <<"application/json">>>>
None == <<"None">>

\* faulty variant: the known types are tried in their declared order and
\* the first of them the header names wins
RECURSIVE accept_by_declared_order(_, _)
accept_by_declared_order(types, i) ==
    IF i > Len(mimes) THEN <<>>
    ELSE IF \E k \in DOMAIN types : types[k] = mimes[i] THEN fmts[i]
    ELSE accept_by_declared_order(types, i + 1)

\* the for loop over the header's media types: the first one that is a
\* known type decides
RECURSIVE accept_walk(_, _)
accept_walk(types, i) ==
    IF i > Len(types) THEN <<>>
    ELSE IF types[i] \in Range(mimes)
         THEN fmts[CHOOSE idx_ \in DOMAIN mimes : mimes[idx_] = types[i]]
    ELSE accept_walk(types, i + 1)

\* h.split(',') of the stripped header: the blanks at the two ends of the
\* header go before the split
header_split(accept) ==
    IF accept = <<>> THEN <<>>
    ELSE [k \in DOMAIN accept |->
             IF Len(accept) = 1 THEN strip(accept[k])
             ELSE IF k = 1 THEN lstrip(accept[k])
             ELSE IF k = Len(accept) THEN rstrip(accept[k])
             ELSE accept[k]]

_get_format(f, accept) ==
    LET format_ == strip(f)
        h == header_split(accept)
        types == [k \in DOMAIN SelectSeq(h, LAMBDA t : t # <<>>) |->
                     strip(split_first(SelectSeq(h, LAMBDA t : t # <<>>)[k]))]
        found == accept_walk(types, 1)
    IN IF format_ # <<>> THEN format_
       ELSE IF found # <<>> THEN found ELSE None

\* the values of the f argument tried (absent is the empty string), and the
\* fragments an Accept header is made of
FValues == {<<>>, <<" ">>, <<"json">>, <<" ", "html", " ">>, <<"xml">>, <<"json", " ", "x">>}
Fragments == {<<>>, <<" ">>, <<"text/html">>, <<" ", "application/json">>,
              <<"application/json", ";", "q=0.9">>, <<"application/ld+json", " ", ";", "q=0.8">>,
              <<"text/html", "x">>, <<"*/*">>, <<"Text/HTML">>}
AcceptHeaders == UNION {[1..n -> Fragments] : n \in 0..MaxAccept}

\* the bodies a create or update request can come with: none, one that is
\* not JSON, JSON without the required fields, and a complete one
BodyKinds == {"empty", "notjson", "incomplete", "ok"}

\* the formats a request can come with: a known one, an unknown one
Formats == {<<"json">>, <<"xml">>}
\* the keys of PLUGINS['formatter'], lower-cased
formatter == {<<"csv">>}
is_valid(format_, additional_formats) ==
    \/ format_ = None
    \/ format_ \in Range(fmts)
    \/ format_ \in additional_formats

NoResp == [op |-> "", status |-> 0, code |-> "", cid |-> 0, fid |-> 0,
           name |-> NoName, datetimes |-> {},
           leaf |-> FALSE, sub |-> FALSE, queried |-> FALSE, written |-> 0,
           valid |-> TRUE, missing |-> FALSE, body |-> ""]

get_exception(r, status, code) == [r EXCEPT !.status = status, !.code = code]
\* a request refused for its format or failed by the storage was not
\* looked up: its response records nothing about the path
get_format_exception(r) == get_exception([r EXCEPT !.valid = FALSE, !.missing = FALSE], 400, "InvalidParameterValue")
ConnectingError(r) == get_exception([r EXCEPT !.missing = FALSE], 400, "ConnectingError")
NotFound(r) == get_exception(r, 404, "NotFound")
InvalidParameterValue(r) == get_exception(r, 400, "InvalidParameterValue")
Answer(r, status) == [r EXCEPT !.status = status]

tables == <<collection, mfeature, tgeometry, tproperties>>

\* parameters the list requests are tried with; NoValue is an absent leaf
LeafT1 == [lo |-> 1, hi |-> 1, aware |-> FALSE, off |-> 0]
LeafT2 == [lo |-> 2, hi |-> 2, aware |-> FALSE, off |-> 0]
LeafParams == {NoValue, <<LeafT1>>, <<LeafT1, LeafT2>>, <<LeafT2, LeafT1>>}
SubParams == {"none", "true", "false"}

\* ids a client can put in a path: the ids the store has issued for that
\* kind of resource, and 0 for an id that was never issued
CollectionIds == collection \cup deleted.collections \cup {0}
FeatureIds == {f.mfeature_id : f \in mfeature}
              \cup {p[2] : p \in deleted.features} \cup {0}
GeometryIds == {g.tgeometry_id : g \in tgeometry} \cup {0}

(***************************************************************************)
(* Controllers for /collections                                            *)
(***************************************************************************)
\* manage_collection(request, 'create'): connect, insert, finally disconnect
PostCollection(fault, fmt) ==
    /\ resp = NoResp
    /\ LET r == [NoResp EXCEPT !.valid = is_valid(fmt, formatter), !.op = "post_collection"] IN
           /\ \E body \in BodyKinds \ {"incomplete"} :
              \* request.data and json.loads; no field is required
              IF body = "empty"
              THEN /\ resp' = get_exception([r EXCEPT !.body = "empty"], 400, "MissingParameterValue")
                   /\ session' = "none"
                   /\ UNCHANGED <<collection, nextId>>
              ELSE IF body = "notjson"
              THEN /\ resp' = get_exception([r EXCEPT !.body = "notjson"], 400, "InvalidParameterValue")
                   /\ session' = "none"
                   /\ UNCHANGED <<collection, nextId>>
              ELSE IF fault = "down"
              THEN /\ resp' = ConnectingError(r)
                   /\ session' = "none"
                   /\ UNCHANGED <<collection, nextId>>
              ELSE IF fault = "query"
              THEN /\ resp' = ConnectingError(r)
                   /\ session' = "closed"
                   /\ UNCHANGED <<collection, nextId>>
              ELSE /\ nextId <= MaxIds
                   /\ collection' = collection \cup {nextId}
                   /\ nextId' = nextId + 1
                   /\ session' = "closed"
                   /\ resp' = Answer(r, 201)
           /\ UNCHANGED <<mfeature, tgeometry, tproperties, deleted>>
           /\ UNCHANGED <<paramVars, auxVars>>

\* faulty variant: the features and their temporal properties are left behind
deleteCollection_only(collection_id) ==
    /\ tgeometry' = {r \in tgeometry : r.collection_id # collection_id}
    /\ UNCHANGED <<tproperties, mfeature>>
    /\ collection' = collection \ {collection_id}

\* deleteCollection(restriction) with restriction "AND collection_id = ..."
deleteCollection(collection_id) ==
    /\ tgeometry' = {r \in tgeometry : r.collection_id # collection_id}
    /\ tproperties' = DeleteRows(tproperties,
           {r \in Rows(tproperties) : r.collection_id = collection_id})
    /\ mfeature' = {r \in mfeature : r.collection_id # collection_id}
    /\ collection' = collection \ {collection_id}

\* manage_collection(request, 'delete', collection_id)
DeleteCollection(cid, fault, fmt) ==
    /\ resp = NoResp
    /\ LET r == [NoResp EXCEPT !.missing = (cid \notin collection),
                               !.valid = is_valid(fmt, formatter), !.op = "delete_collection", !.cid = cid] IN
           /\ IF fault = "down"
              THEN /\ resp' = ConnectingError(r)
                   /\ session' = "none"
                   /\ UNCHANGED <<tables, deleted>>
              ELSE IF fault = "query"
              THEN /\ resp' = ConnectingError(r)
                   /\ session' = "closed"
                   /\ UNCHANGED <<tables, deleted>>
              ELSE /\ deleteCollection(cid)
                   /\ session' = "closed"
                   /\ resp' = Answer(r, 204)
                   /\ deleted' = [collections |-> deleted.collections
                                                     \cup ({cid} \cap collection),
                                  features |-> deleted.features \cup
                                      {<<f.collection_id, f.mfeature_id>> :
                                          f \in {x \in mfeature : x.collection_id = cid}}]
           /\ UNCHANGED nextId
           /\ UNCHANGED <<paramVars, auxVars>>

\* manage_collection(request, 'update', collection_id): putCollection is an
\* UPDATE of the row of collection_id, of no row when there is none
PutCollection(cid, fault, fmt) ==
    /\ resp = NoResp
    /\ LET r == [NoResp EXCEPT !.missing = (cid \notin collection),
                               !.valid = is_valid(fmt, formatter), !.op = "put_collection"] IN
           /\ \E body \in BodyKinds \ {"incomplete"} :
              \* request.data and json.loads; no field is required
              IF body = "empty"
              THEN /\ resp' = get_exception([r EXCEPT !.body = "empty"], 400, "MissingParameterValue")
                   /\ session' = "none"
              ELSE IF body = "notjson"
              THEN /\ resp' = get_exception([r EXCEPT !.body = "notjson"], 400, "InvalidParameterValue")
                   /\ session' = "none"
              ELSE IF fault = "down"
              THEN /\ resp' = ConnectingError(r)
                   /\ session' = "none"
              ELSE IF fault = "query"
              THEN /\ resp' = ConnectingError(r)
                   /\ session' = "closed"
              ELSE /\ session' = "closed"
                   /\ resp' = Answer(r, 204)
           /\ UNCHANGED <<tables, nextId, deleted>>
           /\ UNCHANGED <<paramVars, auxVars>>

\* get_collection: connects inside the try and has no disconnect
GetCollection(cid, fault, fmt) ==
    /\ resp = NoResp
    /\ LET r == [NoResp EXCEPT !.missing = (cid \notin collection),
                               !.op = "get_collection", !.cid = cid] IN
           /\ IF ~is_valid(fmt, {})
              THEN /\ resp' = get_format_exception(r)
                   /\ session' = "none"
              ELSE IF fault = "down"
              THEN /\ resp' = ConnectingError(r)
                   /\ session' = "none"
              ELSE /\ session' = "open"
                   /\ resp' = IF fault = "query" THEN ConnectingError(r)
                              ELSE IF cid \in collection
                              THEN [Answer(r, 200) EXCEPT !.queried = TRUE]
                              ELSE [NotFound(r) EXCEPT !.queried = TRUE]
           /\ UNCHANGED <<tables, nextId, deleted>>
           /\ UNCHANGED <<paramVars, auxVars>>

(***************************************************************************)
(* Controllers for /collections/{cid}/items                                *)
(***************************************************************************)
\* get_collection_items: connects inside the try and has no disconnect
GetCollectionItems(cid, fault, fmt) ==
    /\ resp = NoResp
    /\ LET r == [NoResp EXCEPT !.missing = (cid \notin collection),
                               !.op = "get_collection_items"] IN
           /\ IF ~is_valid(fmt, {})
              THEN /\ resp' = get_format_exception(r)
                   /\ session' = "none"
              ELSE IF fault = "down"
              THEN /\ resp' = ConnectingError(r)
                   /\ session' = "none"
              ELSE IF cid \notin getCollectionsList
              THEN /\ resp' = NotFound(r)
                   /\ session' = "none"
              ELSE /\ session' = "open"
                   /\ resp' = IF fault = "query" THEN ConnectingError(r)
                              ELSE [Answer(r, 200) EXCEPT !.queried = TRUE]
           /\ UNCHANGED <<tables, nextId, deleted>>
           /\ UNCHANGED <<paramVars, auxVars>>

\* manage_collection_item(request, 'create', dataset) with a Feature body
\* that has one temporalGeometry and the given temporalProperties entries;
\* postMovingFeature inserts the nested entries without a conflict check
PostItem(cid, fault, fmt) ==
    /\ resp = NoResp
    /\ LET r == [NoResp EXCEPT !.missing = (cid \notin collection),
                               !.op = "post_item"] IN
           /\ IF ~is_valid(fmt, formatter)
              THEN /\ resp' = get_format_exception(r)
                   /\ session' = "none"
                   /\ UNCHANGED <<mfeature, tgeometry, tproperties, nextId>>
              ELSE IF fault = "down"
              THEN /\ resp' = ConnectingError(r)
                   /\ session' = "none"
                   /\ UNCHANGED <<mfeature, tgeometry, tproperties, nextId>>
              ELSE IF cid \notin getCollectionsList
              THEN /\ resp' = NotFound(r)
                   /\ session' = "none"
                   /\ UNCHANGED <<mfeature, tgeometry, tproperties, nextId>>
              ELSE \E body \in BodyKinds :
                   \* request.data, json.loads and checkRequiredFieldFeature
                   IF body = "empty"
              THEN /\ resp' = get_exception([r EXCEPT !.body = "empty"], 400, "InvalidParameterValue")
                   /\ session' = "none"
                   /\ UNCHANGED <<mfeature, tgeometry, tproperties, nextId>>
              ELSE IF body = "notjson"
              THEN /\ resp' = get_exception([r EXCEPT !.body = "notjson"], 400, "InvalidParameterValue")
                   /\ session' = "none"
                   /\ UNCHANGED <<mfeature, tgeometry, tproperties, nextId>>
              ELSE IF body = "incomplete"
              THEN /\ resp' = get_exception([r EXCEPT !.body = "incomplete"], 501, "MissingParameterValue")
                   /\ session' = "none"
                   /\ UNCHANGED <<mfeature, tgeometry, tproperties, nextId>>
              ELSE IF fault = "query"
              THEN \E k \in 0..(MaxEntries + 1) :
                   \E entries \in [1..(IF k > 2 THEN k - 2 ELSE 0) -> Entries] :
                   \* the (k+1)-th statement of postMovingFeature raises:
                   \* 1 the mfeature INSERT, 2 the tgeometry INSERT, then
                   \* one postTemporalProperties call per entry; entries
                   \* are the entries of the body before the one that raises
                   /\ k >= 1 => nextId + 1 <= MaxIds
                   /\ mfeature' = IF committed(k) >= 1
                                  THEN mfeature \cup {[collection_id |-> cid, mfeature_id |-> nextId]}
                                  ELSE mfeature
                   /\ tgeometry' = IF committed(k) >= 2
                                   THEN tgeometry \cup {[collection_id |-> cid, mfeature_id |-> nextId,
                                                         tgeometry_id |-> nextId + 1]}
                                   ELSE tgeometry
                   /\ BagCardinality(tproperties) + rowsOfEntries(entries, Len(entries)) <= MaxRows
                   /\ tproperties' \in
                          IF committed(k) > 2
                          THEN postEach({tproperties}, cid, nextId, SubSeq(entries, 1, committed(k) - 2), 1)
                          ELSE {tproperties}
                   /\ WithinBounds(tproperties')
                   \* the id after the feature's is kept for its geometry
                   /\ nextId' = IF committed(k) >= 1 THEN nextId + 2 ELSE nextId
                   /\ session' = "closed"
                   /\ resp' = ConnectingError([r EXCEPT !.written =
                                  IF k > 2 THEN 2 + rowsOfEntries(entries, k - 2) ELSE k])
              ELSE \E entries \in Bodies :
                   /\ nextId + 1 <= MaxIds
                   /\ mfeature' = mfeature \cup
                          {[collection_id |-> cid, mfeature_id |-> nextId]}
                   /\ tgeometry' = tgeometry \cup
                          {[collection_id |-> cid, mfeature_id |-> nextId,
                            tgeometry_id |-> nextId + 1]}
                   /\ BagCardinality(tproperties) + rowsOfEntries(entries, Len(entries)) <= MaxRows
                   /\ tproperties' \in postEach({tproperties}, cid, nextId, entries, 1)
                   /\ WithinBounds(tproperties')
                   /\ nextId' = nextId + 2
                   /\ session' = "closed"
                   /\ resp' = Answer(r, 201)
           /\ UNCHANGED <<collection, deleted>>
           /\ UNCHANGED <<paramVars, auxVars>>

\* deleteMovingFeature(restriction) with restriction "AND mfeature_id = ..."
deleteMovingFeature(mfeature_id) ==
    /\ tproperties' = DeleteRows(tproperties,
           {r \in Rows(tproperties) : r.mfeature_id = mfeature_id})
    /\ tgeometry' = {r \in tgeometry : r.mfeature_id # mfeature_id}
    /\ mfeature' = {r \in mfeature : r.mfeature_id # mfeature_id}

\* manage_collection_item(request, 'delete', dataset, identifier)
DeleteItem(cid, fid, fault, fmt) ==
    /\ resp = NoResp
    /\ LET r == [NoResp EXCEPT !.missing = ([collection_id |-> cid, mfeature_id |-> fid] \notin mfeature),
                               !.op = "delete_item", !.cid = cid, !.fid = fid] IN
           /\ IF ~is_valid(fmt, formatter)
              THEN /\ resp' = get_format_exception(r)
                   /\ session' = "none"
                   /\ UNCHANGED <<mfeature, tgeometry, tproperties>>
              ELSE IF fault = "down"
              THEN /\ resp' = ConnectingError(r)
                   /\ session' = "none"
                   /\ UNCHANGED <<mfeature, tgeometry, tproperties>>
              ELSE IF cid \notin getCollectionsList
              THEN /\ resp' = NotFound(r)
                   /\ session' = "none"
                   /\ UNCHANGED <<mfeature, tgeometry, tproperties>>
              ELSE IF fault = "query"
              THEN /\ resp' = ConnectingError(r)
                   /\ session' = "closed"
                   /\ UNCHANGED <<mfeature, tgeometry, tproperties>>
              ELSE /\ deleteMovingFeature(fid)
                   /\ session' = "closed"
                   /\ resp' = Answer(r, 204)
           /\ UNCHANGED <<collection, nextId, deleted>>
           /\ UNCHANGED <<paramVars, auxVars>>

\* get_collection_item: connects inside the try and has no disconnect
GetItem(cid, fid, fault, fmt) ==
    /\ resp = NoResp
    /\ LET r == [NoResp EXCEPT !.missing = ([collection_id |-> cid, mfeature_id |-> fid] \notin mfeature),
                               !.op = "get_collection_item",
                               !.cid = cid, !.fid = fid] IN
           /\ IF ~is_valid(fmt, {})
              THEN /\ resp' = get_format_exception(r)
                   /\ session' = "none"
              ELSE IF fault = "down"
              THEN /\ resp' = ConnectingError(r)
                   /\ session' = "none"
              ELSE /\ session' = "open"
                   /\ resp' = IF fault = "query" THEN ConnectingError(r)
                              ELSE IF \E f \in mfeature : /\ f.collection_id = cid
                                                          /\ f.mfeature_id = fid
                              THEN [Answer(r, 200) EXCEPT !.queried = TRUE]
                              ELSE [NotFound(r) EXCEPT !.queried = TRUE]
           /\ UNCHANGED <<tables, nextId, deleted>>
           /\ UNCHANGED <<paramVars, auxVars>>

(***************************************************************************)
(* Controllers for .../tgsequence                                          *)
(***************************************************************************)
\* faulty variant: the exclusion of leaf with subTrajectory / subTemporalValue is
\* not tested
LeafOnlyError(leaf, sub) ==
    IF leaf # NoValue /\ validate_leaf(leaf).raised THEN "InvalidParameterValue"
    ELSE ""

\* the leaf step and the leaf/sub* exclusion of the two GET controllers that
\* take a leaf: "" when the request passes, else the code of the 400 answer
LeafAndSubError(leaf, sub) ==
    IF leaf # NoValue /\ validate_leaf(leaf).raised THEN "InvalidParameterValue"
    ELSE IF leaf # NoValue /\ sub = "true" THEN "InvalidParameterValue"
    ELSE ""

\* get_collection_items_tGeometry: connects inside the try, no disconnect
GetTGeometries(cid, fid, fault, fmt) ==
    /\ resp = NoResp
    /\ LET r == [NoResp EXCEPT !.missing = ([collection_id |-> cid, mfeature_id |-> fid] \notin mfeature),
                               !.op = "get_tgeometries"] IN
           /\ IF ~is_valid(fmt, {})
              THEN /\ resp' = get_format_exception(r)
                   /\ session' = "none"
              ELSE IF fault = "down"
              THEN /\ resp' = ConnectingError(r)
                   /\ session' = "none"
              ELSE IF <<cid, fid>> \notin getFeaturesList
              THEN /\ resp' = NotFound(r)
                   /\ session' = "none"
              ELSE \E leaf \in LeafParams, sub \in SubParams :
                   LET q == [r EXCEPT !.leaf = (leaf # NoValue), !.sub = (sub = "true")] IN
                   IF LeafAndSubError(leaf, sub) # ""
                   THEN /\ resp' = get_exception(q, 400, LeafAndSubError(leaf, sub))
                        /\ session' = "none"
                   ELSE /\ session' = "open"
                        /\ resp' = IF fault = "query" THEN ConnectingError(q)
                                   ELSE [Answer(q, 200) EXCEPT !.queried = TRUE]
           /\ UNCHANGED <<tables, nextId, deleted>>
           /\ UNCHANGED <<paramVars, auxVars>>

\* manage_collection_item_tGeometry(request, 'create', ...) with one prism
PostTGeometry(cid, fid, fault, fmt) ==
    /\ resp = NoResp
    /\ LET r == [NoResp EXCEPT !.missing = ([collection_id |-> cid, mfeature_id |-> fid] \notin mfeature),
                               !.op = "post_tgeometry"] IN
           /\ IF ~is_valid(fmt, formatter)
              THEN /\ resp' = get_format_exception(r)
                   /\ session' = "none"
                   /\ UNCHANGED <<tgeometry, nextId>>
              ELSE IF fault = "down"
              THEN /\ resp' = ConnectingError(r)
                   /\ session' = "none"
                   /\ UNCHANGED <<tgeometry, nextId>>
              ELSE IF <<cid, fid>> \notin getFeaturesList
              THEN /\ resp' = NotFound(r)
                   /\ session' = "none"
                   /\ UNCHANGED <<tgeometry, nextId>>
              ELSE \E body \in BodyKinds :
                   \* request.data, json.loads and checkRequiredFieldTemporalGeometries
                   IF body = "empty"
              THEN /\ resp' = get_exception([r EXCEPT !.body = "empty"], 400, "InvalidParameterValue")
                   /\ session' = "none"
                   /\ UNCHANGED <<tgeometry, nextId>>
              ELSE IF body = "notjson"
              THEN /\ resp' = get_exception([r EXCEPT !.body = "notjson"], 400, "InvalidParameterValue")
                   /\ session' = "none"
                   /\ UNCHANGED <<tgeometry, nextId>>
              ELSE IF body = "incomplete"
              THEN /\ resp' = get_exception([r EXCEPT !.body = "incomplete"], 501, "MissingParameterValue")
                   /\ session' = "none"
                   /\ UNCHANGED <<tgeometry, nextId>>
              ELSE IF fault = "query"
              THEN /\ resp' = ConnectingError(r)
                   /\ session' = "closed"
                   /\ UNCHANGED <<tgeometry, nextId>>
              ELSE /\ nextId <= MaxIds
                   /\ tgeometry' = tgeometry \cup
                          {[collection_id |-> cid, mfeature_id |-> fid,
                            tgeometry_id |-> nextId]}
                   /\ nextId' = nextId + 1
                   /\ session' = "closed"
                   /\ resp' = Answer(r, 201)
           /\ UNCHANGED <<collection, mfeature, tproperties, deleted>>
           /\ UNCHANGED <<paramVars, auxVars>>

\* manage_collection_item_tGeometry(request, 'delete', ...):
\* deleteTemporalGeometry with restriction "AND tgeometry_id = ..."
DeleteTGeometry(cid, fid, gid, fault, fmt) ==
    /\ resp = NoResp
    /\ LET r == [NoResp EXCEPT !.missing = ([collection_id |-> cid, mfeature_id |-> fid, tgeometry_id |-> gid] \notin tgeometry),
                               !.op = "delete_tgeometry", !.cid = cid, !.fid = fid] IN
           /\ IF ~is_valid(fmt, formatter)
              THEN /\ resp' = get_format_exception(r)
                   /\ session' = "none"
                   /\ UNCHANGED tgeometry
              ELSE IF fault = "down"
              THEN /\ resp' = ConnectingError(r)
                   /\ session' = "none"
                   /\ UNCHANGED tgeometry
              ELSE IF <<cid, fid>> \notin getFeaturesList
              THEN /\ resp' = NotFound(r)
                   /\ session' = "none"
                   /\ UNCHANGED tgeometry
              ELSE IF fault = "query"
              THEN /\ resp' = ConnectingError(r)
                   /\ session' = "closed"
                   /\ UNCHANGED tgeometry
              ELSE /\ tgeometry' = {g \in tgeometry : g.tgeometry_id # gid}
                   /\ session' = "closed"
                   /\ resp' = Answer(r, 204)
           /\ UNCHANGED <<collection, mfeature, tproperties, nextId, deleted>>
           /\ UNCHANGED <<paramVars, auxVars>>

(***************************************************************************)
(* Controllers for .../tProperties                                         *)
(***************************************************************************)
\* get_collection_items_tProperty: connects inside the try, no disconnect
GetTProperties(cid, fid, fault, fmt) ==
    /\ resp = NoResp
    /\ LET r == [NoResp EXCEPT !.missing = ([collection_id |-> cid, mfeature_id |-> fid] \notin mfeature),
                               !.op = "get_tproperties"] IN
           /\ IF ~is_valid(fmt, {})
              THEN /\ resp' = get_format_exception(r)
                   /\ session' = "none"
              ELSE IF fault = "down"
              THEN /\ resp' = ConnectingError(r)
                   /\ session' = "none"
              ELSE IF <<cid, fid>> \notin getFeaturesList
              THEN /\ resp' = NotFound(r)
                   /\ session' = "none"
              ELSE /\ session' = "open"
                   /\ resp' = IF fault = "query" THEN ConnectingError(r)
                              ELSE [Answer(r, 200) EXCEPT !.queried = TRUE]
           /\ UNCHANGED <<tables, nextId, deleted>>
           /\ UNCHANGED <<paramVars, auxVars>>

\* manage_collection_item_tProperty(request, 'create', ...)
PostTProperties(cid, fid, fault, fmt) ==
    /\ resp = NoResp
    /\ LET r == [NoResp EXCEPT !.missing = ([collection_id |-> cid, mfeature_id |-> fid] \notin mfeature),
                               !.op = "post_tproperties"] IN
           /\ IF ~is_valid(fmt, formatter)
              THEN /\ resp' = get_format_exception(r)
                   /\ session' = "none"
                   /\ UNCHANGED tproperties
              ELSE IF fault = "down"
              THEN /\ resp' = ConnectingError(r)
                   /\ session' = "none"
                   /\ UNCHANGED tproperties
              ELSE IF <<cid, fid>> \notin getFeaturesList
              THEN /\ resp' = NotFound(r)
                   /\ session' = "none"
                   /\ UNCHANGED tproperties
              ELSE \E body \in BodyKinds :
                   \* request.data, json.loads and checkRequiredFieldTemporalProperties
                   IF body = "empty"
              THEN /\ resp' = get_exception([r EXCEPT !.body = "empty"], 400, "InvalidParameterValue")
                   /\ session' = "none"
                   /\ UNCHANGED tproperties
              ELSE IF body = "notjson"
              THEN /\ resp' = get_exception([r EXCEPT !.body = "notjson"], 400, "InvalidParameterValue")
                   /\ session' = "none"
                   /\ UNCHANGED tproperties
              ELSE IF body = "incomplete"
              THEN /\ resp' = get_exception([r EXCEPT !.body = "incomplete"], 501, "MissingParameterValue")
                   /\ session' = "none"
                   /\ UNCHANGED tproperties
              ELSE IF fault = "query"
              THEN \E k \in 0..(MaxEntries - 1) :
                   \E entries \in [1..k -> Entries] :
                   \* k = 0: checkIfTemporalPropertyCanPost raises, whatever
                   \* the body; otherwise the (k+1)-th postTemporalProperties
                   \* call of a body that passed the check raises; entries
                   \* are the entries of the body before that one
                   /\ (k = 0 \/ \E rest \in Bodies :
                                    /\ rest # <<>>
                                    /\ Len(entries \o rest) <= MaxEntries
                                    /\ checkIfTemporalPropertyCanPost(tproperties, cid, fid,
                                                                      entries \o rest, NoName)) = TRUE
                   /\ BagCardinality(tproperties) + rowsOfEntries(entries, k) <= MaxRows
                   /\ tproperties' \in postEach({tproperties}, cid, fid,
                                                SubSeq(entries, 1, committed(k)), 1)
                   /\ WithinBounds(tproperties')
                   /\ session' = "closed"
                   /\ resp' = ConnectingError([r EXCEPT !.written = rowsOfEntries(entries, k)])
              ELSE /\ session' = "closed"
                   /\ \/ \E entries \in Bodies :
                            /\ checkIfTemporalPropertyCanPost(tproperties, cid, fid, entries,
                                                              NoName)
                            /\ BagCardinality(tproperties) + rowsOfEntries(entries, Len(entries)) <= MaxRows
                            /\ tproperties' \in postEach({tproperties}, cid, fid, entries, 1)
                            /\ WithinBounds(tproperties')
                            /\ resp' = Answer(r, 201)
                      \/ /\ (\E entries \in Bodies :
                                ~checkIfTemporalPropertyCanPost(tproperties, cid, fid, entries,
                                                                NoName)) = TRUE
                         /\ resp' = Answer(r, 400)
                         /\ UNCHANGED tproperties
           /\ UNCHANGED <<collection, mfeature, tgeometry, nextId, deleted>>
           /\ UNCHANGED <<paramVars, auxVars>>

\* manage_collection_item_tProperty(request, 'delete', ...):
\* deleteTemporalProperties with restriction "AND tproperties_name = ..."
DeleteTProperty(cid, fid, name, fault, fmt) ==
    /\ resp = NoResp
    /\ LET r == [NoResp EXCEPT !.missing = (~\E x \in Rows(tproperties) : x.collection_id = cid /\ x.mfeature_id = fid /\ x.tproperties_name = name),
                               !.op = "delete_tproperty", !.cid = cid, !.fid = fid, !.name = name] IN
           /\ IF ~is_valid(fmt, formatter)
              THEN /\ resp' = get_format_exception(r)
                   /\ session' = "none"
                   /\ UNCHANGED tproperties
              ELSE IF fault = "down"
              THEN /\ resp' = ConnectingError(r)
                   /\ session' = "none"
                   /\ UNCHANGED tproperties
              ELSE IF <<cid, fid>> \notin getFeaturesList
              THEN /\ resp' = NotFound(r)
                   /\ session' = "none"
                   /\ UNCHANGED tproperties
              ELSE IF fault = "query"
              THEN /\ resp' = ConnectingError(r)
                   /\ session' = "closed"
                   /\ UNCHANGED tproperties
              ELSE /\ tproperties' = DeleteRows(tproperties,
                          {x \in Rows(tproperties) : x.tproperties_name = name})
                   /\ session' = "closed"
                   /\ resp' = Answer(r, 204)
           /\ UNCHANGED <<collection, mfeature, tgeometry, nextId, deleted>>
           /\ UNCHANGED <<paramVars, auxVars>>

(***************************************************************************)
(* Controllers for .../tProperties/{name}                                  *)
(***************************************************************************)
\* get_collection_items_tProperty_value: connects inside the try, no
\* disconnect
GetTPropertyValue(cid, fid, name, fault, fmt) ==
    /\ resp = NoResp
    /\ LET r == [NoResp EXCEPT !.missing = (~\E x \in Rows(tproperties) : x.collection_id = cid /\ x.mfeature_id = fid /\ x.tproperties_name = name),
                               !.op = "get_tproperty_value"] IN
           /\ IF ~is_valid(fmt, {})
              THEN /\ resp' = get_format_exception(r)
                   /\ session' = "none"
              ELSE IF fault = "down"
              THEN /\ resp' = ConnectingError(r)
                   /\ session' = "none"
              ELSE IF <<cid, fid, name>> \notin gettPropertiesNameList
              THEN /\ resp' = NotFound(r)
                   /\ session' = "none"
              ELSE \E leaf \in LeafParams, sub \in SubParams :
                   LET q == [r EXCEPT !.leaf = (leaf # NoValue), !.sub = (sub = "true")] IN
                   IF LeafAndSubError(leaf, sub) # ""
                   THEN /\ resp' = get_exception(q, 400, LeafAndSubError(leaf, sub))
                        /\ session' = "none"
                   ELSE /\ session' = "open"
                        /\ resp' = IF fault = "query" THEN ConnectingError(q)
                                   ELSE [Answer(q, 200) EXCEPT !.queried = TRUE]
           /\ UNCHANGED <<tables, nextId, deleted>>
           /\ UNCHANGED <<paramVars, auxVars>>

\* manage_collection_item_tProperty_value(request, 'create', ...)
PostTPropertyValue(cid, fid, name, fault, fmt) ==
    /\ resp = NoResp
    /\ LET r == [NoResp EXCEPT !.missing = (~\E x \in Rows(tproperties) : x.collection_id = cid /\ x.mfeature_id = fid /\ x.tproperties_name = name),
                               !.op = "post_tproperty_value"] IN
           /\ IF ~is_valid(fmt, formatter)
              THEN /\ resp' = get_format_exception(r)
                   /\ session' = "none"
                   /\ UNCHANGED tproperties
              ELSE IF fault = "down"
              THEN /\ resp' = ConnectingError(r)
                   /\ session' = "none"
                   /\ UNCHANGED tproperties
              ELSE IF <<cid, fid, name>> \notin gettPropertiesNameList
              THEN /\ resp' = NotFound(r)
                   /\ session' = "none"
                   /\ UNCHANGED tproperties
              ELSE \E body \in BodyKinds :
                   \* request.data, json.loads and checkRequiredFieldTemporalValue
                   IF body = "empty"
              THEN /\ resp' = get_exception([r EXCEPT !.body = "empty"], 400, "InvalidParameterValue")
                   /\ session' = "none"
                   /\ UNCHANGED tproperties
              ELSE IF body = "notjson"
              THEN /\ resp' = get_exception([r EXCEPT !.body = "notjson"], 400, "InvalidParameterValue")
                   /\ session' = "none"
                   /\ UNCHANGED tproperties
              ELSE IF body = "incomplete"
              THEN /\ resp' = get_exception([r EXCEPT !.body = "incomplete"], 501, "MissingParameterValue")
                   /\ session' = "none"
                   /\ UNCHANGED tproperties
              ELSE IF fault = "query"
              THEN /\ resp' = ConnectingError(r)
                   /\ session' = "closed"
                   /\ UNCHANGED tproperties
              ELSE \E datetimes \in DatetimeSets :
                   LET data == [datetimes |-> datetimes, keys |-> <<name>>]
                       q == [r EXCEPT !.cid = cid, !.fid = fid, !.name = name,
                                      !.datetimes = datetimes] IN
                   /\ session' = "closed"
                   /\ IF checkIfTemporalPropertyCanPost(tproperties, cid, fid, <<data>>,
                                                        name)
                      THEN /\ tproperties' \in postTemporalValue(tproperties, cid, fid,
                                                                 name, datetimes)
                           /\ WithinBounds(tproperties')
                           /\ resp' = Answer(q, 201)
                      ELSE /\ resp' = Answer(q, 400)
                           /\ UNCHANGED tproperties
           /\ UNCHANGED <<collection, mfeature, tgeometry, nextId, deleted>>
           /\ UNCHANGED <<paramVars, auxVars>>

(***************************************************************************)
(* Specifications                                                          *)
(***************************************************************************)
StoreInit ==
    /\ collection = {}
    /\ mfeature = {}
    /\ tgeometry = {}
    /\ tproperties = EmptyBag
    /\ nextId = 1
    /\ session = "none"
    /\ resp = NoResp
    /\ deleted = [collections |-> {}, features |-> {}]

ParamsIdle ==
    /\ bboxIn = NoValue /\ bboxOut = BboxNotRun
    /\ dtIn = DatetimeNone /\ dtOut = DatetimeNotRun
    /\ leafIn = NoValue /\ leafOut = LeafNotRun

IoIdle ==
    /\ formatIn = NoValue
    /\ formatOut = NoValue
    /\ listIn = NoValue
    /\ listOut = NoValue
    /\ geomIn = NoValue
    /\ geomOut = NoValue

AuxIdle ==
    /\ posts = NoValue
    /\ reads = NoValue
    /\ IoIdle

\* the requests served one after the other over the store
Init == StoreInit /\ ParamsIdle /\ AuxIdle

\* the response is sent and the handler returns: its ProcessMobilityData
\* object goes out of scope and the server waits for the next request
Deliver ==
    /\ resp # NoResp
    /\ resp' = NoResp
    /\ session' = "none"
    /\ UNCHANGED <<tables, nextId, deleted>>
    /\ UNCHANGED <<paramVars, auxVars>>

\* one request at a time is handled, with the storage up or failing
Next ==
    \/ Deliver
    \/ resp = NoResp /\ \E fmt \in Formats, fault \in Faults : PostCollection(fault, fmt)
    \/ resp = NoResp /\ \E fmt \in Formats, fault \in Faults, cid \in CollectionIds :
           DeleteCollection(cid, fault, fmt)
    \/ resp = NoResp /\ \E fmt \in Formats, fault \in Faults, cid \in CollectionIds :
           PutCollection(cid, fault, fmt)
    \/ resp = NoResp /\ \E fmt \in Formats, fault \in Faults, cid \in CollectionIds :
           GetCollection(cid, fault, fmt)
    \/ resp = NoResp /\ \E fmt \in Formats, fault \in Faults, cid \in CollectionIds :
           GetCollectionItems(cid, fault, fmt)
    \/ resp = NoResp /\ \E fmt \in Formats, fault \in Faults, cid \in CollectionIds :
           PostItem(cid, fault, fmt)
    \/ resp = NoResp /\ \E fmt \in Formats, fault \in Faults, cid \in CollectionIds, fid \in FeatureIds :
           DeleteItem(cid, fid, fault, fmt)
    \/ resp = NoResp /\ \E fmt \in Formats, fault \in Faults, cid \in CollectionIds, fid \in FeatureIds :
           GetItem(cid, fid, fault, fmt)
    \/ resp = NoResp /\ \E fmt \in Formats, fault \in Faults, cid \in CollectionIds, fid \in FeatureIds :
           GetTGeometries(cid, fid, fault, fmt)
    \/ resp = NoResp /\ \E fmt \in Formats, fault \in Faults, cid \in CollectionIds, fid \in FeatureIds :
           PostTGeometry(cid, fid, fault, fmt)
    \/ resp = NoResp /\ \E fmt \in Formats, fault \in Faults, cid \in CollectionIds, fid \in FeatureIds,
          gid \in GeometryIds :
           DeleteTGeometry(cid, fid, gid, fault, fmt)
    \/ resp = NoResp /\ \E fmt \in Formats, fault \in Faults, cid \in CollectionIds, fid \in FeatureIds :
           GetTProperties(cid, fid, fault, fmt)
    \/ resp = NoResp /\ \E fmt \in Formats, fault \in Faults, cid \in CollectionIds, fid \in FeatureIds :
           PostTProperties(cid, fid, fault, fmt)
    \/ resp = NoResp /\ \E fmt \in Formats, fault \in Faults, cid \in CollectionIds, fid \in FeatureIds,
          name \in Names :
           DeleteTProperty(cid, fid, name, fault, fmt)
    \/ resp = NoResp /\ \E fmt \in Formats, fault \in Faults, cid \in CollectionIds, fid \in FeatureIds,
          name \in Names :
           GetTPropertyValue(cid, fid, name, fault, fmt)
    \/ resp = NoResp /\ \E fmt \in Formats, fault \in Faults, cid \in CollectionIds, fid \in FeatureIds,
          name \in Names :
           PostTPropertyValue(cid, fid, name, fault, fmt)

Spec == Init /\ [][Next]_vars

\* the same requests over a store that holds two collections, 1 and 2, with
\* one feature each, 3 and 4, each with one temporal geometry and one
\* sequence of the property a; the ids 1..6 have been issued
InitScope ==
    /\ ParamsIdle /\ AuxIdle
    /\ collection = {1, 2}
    /\ mfeature = {[collection_id |-> c, mfeature_id |-> c + 2] : c \in {1, 2}}
    /\ tgeometry = {[collection_id |-> c, mfeature_id |-> c + 2, tgeometry_id |-> c + 4] : c \in {1, 2}}
    /\ tproperties = AddRows(EmptyBag, {[collection_id |-> c, mfeature_id |-> c + 2, tproperties_name |-> "a",
                                         datetime_group |-> 1, datetimes |-> {1}] : c \in {1, 2}})
    /\ nextId = 7
    /\ session = "none"
    /\ resp = NoResp
    /\ deleted = [collections |-> {}, features |-> {}]
SpecScope == InitScope /\ [][Next]_vars

\* the bbox parameter of a list request
InitBbox ==
    /\ StoreInit
    /\ AuxIdle
    /\ bboxIn \in BboxInputs /\ bboxOut = BboxNotRun
    /\ dtIn = DatetimeNone /\ dtOut = DatetimeNotRun
    /\ leafIn = NoValue /\ leafOut = LeafNotRun
NextBbox == BboxParam
SpecBbox == InitBbox /\ [][NextBbox]_vars

\* the datetime parameter of a list request
InitDatetime ==
    /\ StoreInit
    /\ AuxIdle
    /\ bboxIn = NoValue /\ bboxOut = BboxNotRun
    /\ dtIn \in DatetimeInputs /\ dtOut = DatetimeNotRun
    /\ leafIn = NoValue /\ leafOut = LeafNotRun
NextDatetime == DatetimeParam
SpecDatetime == InitDatetime /\ [][NextDatetime]_vars

\* the leaf parameter of a tgsequence or tProperties/{name} request
InitLeaf ==
    /\ StoreInit
    /\ AuxIdle
    /\ bboxIn = NoValue /\ bboxOut = BboxNotRun
    /\ dtIn = DatetimeNone /\ dtOut = DatetimeNotRun
    /\ leafIn \in LeafInputs /\ leafOut = LeafNotRun
NextLeaf == LeafParam
SpecLeaf == InitLeaf /\ [][NextLeaf]_vars

\* the call of _get_format on the request's arguments and headers
FormatParam ==
    /\ formatOut = NoValue
    /\ formatOut' = <<_get_format(formatIn.f, formatIn.accept)>>
    /\ UNCHANGED <<paramVars, storeVars, posts, reads, formatIn, listIn, listOut, geomIn, geomOut>>

InitFormat ==
    /\ StoreInit
    /\ ParamsIdle
    /\ posts = NoValue /\ reads = NoValue
    /\ formatIn \in [f : FValues, accept : AcceptHeaders]
    /\ formatOut = NoValue
    /\ listIn = NoValue /\ listOut = NoValue
    /\ geomIn = NoValue /\ geomOut = NoValue
NextFormat == FormatParam
SpecFormat == InitFormat /\ [][NextFormat]_vars

(***************************************************************************)
(* The list queries: getFeatures, getTemporalGeometries and                *)
(* getTemporalProperties, and a client that pages through a listing.  In   *)
(* this specification a tgeometry row carries the instants of its samples, *)
(* its interpolation and its extent on one axis                            *)
(***************************************************************************)
ListCid == 1
ListGeometries ==
    {[collection_id |-> ListCid, mfeature_id |-> 2, tgeometry_id |-> 5, samples |-> {0, 3}, interpolation |-> "Linear", box |-> <<0, 0>>],
     [collection_id |-> ListCid, mfeature_id |-> 2, tgeometry_id |-> 6, samples |-> {MaxT}, interpolation |-> "Discrete", box |-> <<1, 1>>],
     [collection_id |-> ListCid, mfeature_id |-> 3, tgeometry_id |-> 7, samples |-> {1, 3}, interpolation |-> "Discrete", box |-> <<0, 1>>]}
ListProperties ==
    {[collection_id |-> ListCid, mfeature_id |-> 2, tproperties_name |-> "a", datetime_group |-> 1, datetimes |-> {1}],
     [collection_id |-> ListCid, mfeature_id |-> 2, tproperties_name |-> "a", datetime_group |-> 2, datetimes |-> {2, 3}],
     [collection_id |-> ListCid, mfeature_id |-> 2, tproperties_name |-> "b", datetime_group |-> 2, datetimes |-> {2, 3}]}

\* a && b on periods and &&& on boxes, both given by their two ends
Overlaps(a, b) == a[1] <= b[2] /\ b[1] <= a[2]
\* extent(...) of a set of values: NoValue (NULL) for no row
extent(values) == IF values = {} THEN NoValue ELSE <<SetMin(values), SetMax(values)>>

\* faulty variant: the sequence comes back whole
atperiod_whole(samples, interpolation, datetime) == samples
\* atperiod(sequence, '[t1, t2]'): the instants of the restricted sequence,
\* {} for NULL; a continuous sequence is cut at the two ends of the period
atperiod(samples, interpolation, datetime) ==
    LET inside == {t \in samples : datetime[1] <= t /\ t <= datetime[2]}
        lo == SetMin(samples)
        hi == SetMax(samples)
    IN IF interpolation = "Discrete" THEN inside
       ELSE IF ~Overlaps(<<lo, hi>>, datetime) THEN {}
       ELSE inside \cup {IF datetime[1] > lo THEN datetime[1] ELSE lo,
                         IF datetime[2] < hi THEN datetime[2] ELSE hi}

\* faulty variant: the page is cut at the offset only
page_size_unlimited(numberMatched, limit, offset) == IF numberMatched > offset THEN numberMatched - offset ELSE 0
\* the number of rows of a query of numberMatched rows under LIMIT / OFFSET
page_size(numberMatched, limit, offset) ==
    LET left == IF numberMatched > offset THEN numberMatched - offset ELSE 0
    IN IF left > limit THEN limit ELSE left
\* the query has no ORDER BY: the rows LIMIT / OFFSET keeps are any rows of
\* the result, chosen anew at every execution
limit_restriction(rows, limit, offset) == {page \in SUBSET rows : Cardinality(page) = page_size(Cardinality(rows), limit, offset)}

\* the rows of select_query of getFeatures, by mfeature_id
getFeatures_rows(collection_id, bbox, datetime, subTrajectory) ==
    {f \in {x.mfeature_id : x \in {y \in mfeature : y.collection_id = collection_id}} :
        LET geometries == {g \in tgeometry : g.collection_id = collection_id /\ g.mfeature_id = f}
            values == {v \in Rows(tproperties) : v.collection_id = collection_id /\ v.mfeature_id = f}
            extentTGeometry == extent(UNION {g.samples : g \in geometries})
            extentBox == extent(UNION {{g.box[1], g.box[2]} : g \in geometries})
            extentTPropertiesValue == extent(UNION {v.datetimes : v \in values})
        IN /\ bbox # NoValue => (extentBox # NoValue /\ Overlaps(bbox, extentBox))
           /\ (datetime # NoValue /\ ~subTrajectory) =>
                  \/ extentTPropertiesValue # NoValue /\ Overlaps(extentTPropertiesValue, datetime)
                  \/ extentTGeometry # NoValue /\ Overlaps(extentTGeometry, datetime)}

\* the rows of select_query of getTemporalGeometries
getTemporalGeometries_rows(collection_id, mfeature_id, bbox, datetime) ==
    {g \in tgeometry :
        /\ g.collection_id = collection_id /\ g.mfeature_id = mfeature_id
        /\ bbox # NoValue => Overlaps(bbox, g.box)
        /\ datetime # NoValue => atperiod(g.samples, g.interpolation, datetime) # {}}

\* the rows of select_query of getTemporalProperties, by tproperties_name
getTemporalProperties_rows(collection_id, mfeature_id, datetime, subTemporalValue) ==
    {v.tproperties_name : v \in {x \in Rows(tproperties) :
        /\ x.collection_id = collection_id /\ x.mfeature_id = mfeature_id
        /\ (datetime # NoValue /\ ~subTemporalValue) =>
               atperiod(x.datetimes, "Linear", datetime) # {}}}

\* what a list controller answers: the ids of the items of the page, the
\* two counts, the length of the array returned (features, prisms or
\* temporalProperties) and the instants of the temporalGeometry objects
\* returned; error is the 400 ConnectingError answer
ListAnswers(q, offset) ==
    IF q.sub /\ q.datetime = NoValue
    THEN \* atperiod(..., '[]') is refused by the storage
         {[offset |-> offset, error |-> TRUE, ids |-> {}, numberMatched |-> 0, numberReturned |-> 0, elements |-> 0, instants |-> {}]}
    ELSE IF q.endpoint = "items"
    THEN LET rows == getFeatures_rows(ListCid, q.bbox, q.datetime, q.sub)
             \* select_geometry_query filters by bbox only and is cut anew
             again == getFeatures_rows(ListCid, q.bbox, NoValue, q.sub)
         IN {[offset |-> offset, error |-> FALSE,
              ids |-> IF q.sub THEN shown ELSE page,
              numberMatched |-> Cardinality(rows),
              numberReturned |-> Cardinality(page),
              \* the rows are regrouped by mfeature_id
              elements |-> Cardinality(IF q.sub THEN shown ELSE page),
              instants |-> IF q.sub
                           THEN UNION {atperiod(g.samples, g.interpolation, q.datetime) :
                                          g \in {x \in tgeometry : x.collection_id = ListCid /\ x.mfeature_id \in shown}}
                           ELSE {}]
             : page \in limit_restriction(rows, q.limit, offset),
               shown \in IF q.sub THEN limit_restriction(again, q.limit, offset) ELSE {{}}}
    ELSE IF q.endpoint = "tgeometries"
    THEN LET rows == getTemporalGeometries_rows(ListCid, q.fid, q.bbox, q.datetime)
         IN {[offset |-> offset, error |-> FALSE,
              ids |-> {g.tgeometry_id : g \in page},
              numberMatched |-> Cardinality(rows),
              numberReturned |-> Cardinality(page),
              elements |-> Cardinality(page),
              instants |-> UNION {IF q.sub THEN atperiod(g.samples, g.interpolation, q.datetime)
                                  ELSE g.samples : g \in page}]
             : page \in limit_restriction(rows, q.limit, offset)}
    ELSE LET rows == getTemporalProperties_rows(ListCid, q.fid, q.datetime, q.sub)
             \* select_temporalValue_query: the names, cut anew, joined with
             \* their sequences restricted to the period; a name with no
             \* such sequence gives one row of datetime_group NULL (0)
             joined(shown) ==
                 UNION {LET values == {v \in Rows(tproperties) :
                                         /\ v.collection_id = ListCid /\ v.mfeature_id = q.fid
                                         /\ v.tproperties_name = n
                                         /\ atperiod(v.datetimes, "Linear", q.datetime) # {}}
                        IN IF values = {} THEN {0} ELSE {v.datetime_group : v \in values}
                        : n \in shown}
         IN {[offset |-> offset, error |-> FALSE,
              ids |-> IF q.sub THEN shown ELSE page,
              numberMatched |-> Cardinality(rows),
              numberReturned |-> Cardinality(page),
              \* with subTemporalValue the rows are regrouped by datetime_group
              elements |-> IF q.sub THEN Cardinality(joined(shown)) ELSE Cardinality(page),
              instants |-> {}]
             : page \in limit_restriction(rows, q.limit, offset),
               shown \in IF q.sub THEN limit_restriction(rows, q.limit, offset) ELSE {{}}}

ListRequests ==
    [endpoint : {"items", "tgeometries", "tproperties"}, fid : {2, 3},
     bbox : {NoValue, <<0, 0>>, <<1, 1>>},
     datetime : {NoValue, <<1, 2>>, <<0, 0>>, <<3, MaxT>>},
     limit : 1..MaxLimit, start : 0..MaxOffset, sub : BOOLEAN]

\* the client asks for the next page, at offset start, start + limit, ...,
\* as long as the listing has more rows
ListPage ==
    /\ listIn # NoValue
    /\ LET offset == listIn.start + Len(listOut) * listIn.limit
       IN /\ IF listOut = <<>> THEN TRUE
             ELSE ~listOut[1].error /\ offset < listOut[1].numberMatched
          /\ \E answer \in ListAnswers(listIn, offset) : listOut' = Append(listOut, answer)
    /\ UNCHANGED <<paramVars, storeVars, posts, reads, formatIn, formatOut, listIn, geomIn, geomOut>>

InitList ==
    /\ ParamsIdle
    /\ collection = {ListCid}
    /\ mfeature = {[collection_id |-> ListCid, mfeature_id |-> f] : f \in {2, 3, 4}}
    /\ tgeometry \in SUBSET ListGeometries
    /\ tproperties = AddRows(EmptyBag, ListProperties)
    /\ nextId = 8
    /\ session = "none"
    /\ resp = NoResp
    /\ deleted = [collections |-> {}, features |-> {}]
    /\ posts = NoValue /\ reads = NoValue
    /\ formatIn = NoValue /\ formatOut = NoValue
    /\ listIn \in {q \in ListRequests : q.endpoint = "items" => q.fid = 2}
    /\ listOut = <<>>
    /\ geomIn = NoValue /\ geomOut = NoValue
SpecList == InitList /\ [][ListPage]_vars

(***************************************************************************)
(* The two dialects of a temporalGeometry.  A dictionary is a function     *)
(* from its keys; a timestamp is a sequence of pieces: the local time,     *)
(* then "Z", or "+" and an offset, or nothing                              *)
(***************************************************************************)
\* del d[k] of a Python dict; d[k] = v is (k :> v) @@ d
dict_del(d, k) == [x \in DOMAIN d \ {k} |-> d[x]]

convertTemporalGeometryToNewVersion(temporalGeometry) ==
    LET \* s.replace('Z', '')
        replace(s) == SelectSeq(s, LAMBDA piece : piece # "Z")
        g1 == IF "interpolation" \in DOMAIN temporalGeometry
              THEN dict_del(("interpolations" :> <<IF temporalGeometry["interpolation"] = "Step" THEN "Stepwise"
                                                    ELSE temporalGeometry["interpolation"]>>) @@ temporalGeometry,
                       "interpolation")
              ELSE temporalGeometry
        g2 == IF "type" \in DOMAIN g1 /\ g1["type"] = "MovingPoint"
              THEN ("type" :> "MovingGeomPoint") @@ g1 ELSE g1
        g3 == IF "datetimes" \in DOMAIN g2
              THEN ("datetimes" :> [i \in DOMAIN g2["datetimes"] |-> replace(g2["datetimes"][i])]) @@ g2
              ELSE g2
        g4 == IF "lower_inc" \notin DOMAIN g3 THEN ("lower_inc" :> TRUE) @@ g3 ELSE g3
    IN IF "upper_inc" \notin DOMAIN g4 THEN ("upper_inc" :> TRUE) @@ g4 ELSE g4

convertTemporalGeometryToOldVersion(temporalGeometry) ==
    LET \* s.split('+')[0] + 'Z'
        split(s) == LET plus == {i \in DOMAIN s : s[i] = "+"}
                    IN Append(IF plus = {} THEN s ELSE SubSeq(s, 1, SetMin(plus) - 1), "Z")
        g1 == IF "interpolations" \in DOMAIN temporalGeometry
              THEN dict_del(("interpolation" :> (IF temporalGeometry["interpolations"][1] = "Stepwise" THEN "Step"
                                                    ELSE temporalGeometry["interpolations"][1])) @@ temporalGeometry,
                       "interpolations")
              ELSE temporalGeometry
        g2 == IF g1["type"] = "MovingGeomPoint" THEN ("type" :> "MovingPoint") @@ g1 ELSE g1
        g3 == IF "datetimes" \in DOMAIN g2
              THEN ("datetimes" :> [i \in DOMAIN g2["datetimes"] |-> split(g2["datetimes"][i])]) @@ g2
              ELSE g2
    IN dict_del(dict_del(g3, "lower_inc"), "upper_inc")

\* the wire-format bodies: type, datetimes and coordinates always, the other
\* members optional
TemporalGeometries ==
    {[k \in keys |-> full[k]] :
        keys \in {{"type", "datetimes", "coordinates"} \cup more :
                     more \in SUBSET {"interpolation", "crs", "lower_inc", "upper_inc"}},
        full \in [type : {"MovingPoint"},
                  datetimes : UNION {[1..n -> {<<"T">>, <<"T", "Z">>, <<"T", "+", "09:00">>}] : n \in 1..MaxSamples},
                  coordinates : {"coordinates"},
                  interpolation : {"Discrete", "Linear", "Step", "Stepwise"},
                  crs : {"crs"},
                  lower_inc : BOOLEAN,
                  upper_inc : {TRUE}]}

\* postTemporalGeometry converts the body to the dialect of the storage
ToNewVersion ==
    /\ geomIn # NoValue /\ geomOut = <<>>
    /\ geomOut' = <<convertTemporalGeometryToNewVersion(geomIn)>>
    /\ UNCHANGED <<paramVars, storeVars, posts, reads, formatIn, formatOut, listIn, listOut, geomIn>>
\* a list controller converts it back for the response
ToOldVersion ==
    /\ geomIn # NoValue /\ Len(geomOut) = 1
    /\ geomOut' = Append(geomOut, convertTemporalGeometryToOldVersion(geomOut[1]))
    /\ UNCHANGED <<paramVars, storeVars, posts, reads, formatIn, formatOut, listIn, listOut, geomIn>>

InitConvert ==
    /\ StoreInit /\ ParamsIdle
    /\ posts = NoValue /\ reads = NoValue
    /\ formatIn = NoValue /\ formatOut = NoValue
    /\ listIn = NoValue /\ listOut = NoValue
    /\ geomIn \in TemporalGeometries
    /\ geomOut = <<>>
NextConvert == ToNewVersion \/ ToOldVersion
SpecConvert == InitConvert /\ [][NextConvert]_vars

(***************************************************************************)
(* Concurrent POSTs to .../tProperties/{name}: each request runs in its    *)
(* own worker with its own session in autocommit mode, so every statement  *)
(* of manage_collection_item_tProperty_value is a step of its own          *)
(***************************************************************************)
Requests == 1..MaxPosts

\* the feature and the property name all the concurrent requests address
RaceCid == 1
RaceFid == 2
RaceGid == 3
RaceName == "a"

RaceRow(datetime_group, datetimes) == [collection_id |-> RaceCid, mfeature_id |-> RaceFid, tproperties_name |-> RaceName, datetime_group |-> datetime_group, datetimes |-> datetimes]

NoRead == [rows |-> EmptyBag, after |-> {}]

\* getListOftPropertiesName and the NotFound test
RaceLookup(p) ==
    /\ posts[p].pc = "start"
    /\ posts' = [posts EXCEPT ![p].pc =
                     IF <<RaceCid, RaceFid, RaceName>> \in gettPropertiesNameList
                     THEN "found" ELSE "done",
                 ![p].status =
                     IF <<RaceCid, RaceFid, RaceName>> \in gettPropertiesNameList
                     THEN 0 ELSE 404]
    /\ UNCHANGED <<paramVars, storeVars, reads, ioVars>>

\* pd.connect() and canPost = pd.checkIfTemporalPropertyCanPost(...)
RaceCheck(p) ==
    /\ posts[p].pc = "found"
    /\ LET data == [datetimes |-> posts[p].datetimes, keys |-> <<RaceName>>]
           canPost == checkIfTemporalPropertyCanPost(tproperties, RaceCid, RaceFid, <<data>>, RaceName)
       IN posts' = [posts EXCEPT
                       ![p].pc = IF canPost THEN "checked" ELSE "done",
                       ![p].status = IF canPost THEN 0 ELSE 400,
                       ![p].before = {q \in Requests : posts[q].inserted}]
    /\ UNCHANGED <<paramVars, storeVars, reads, ioVars>>

\* postTemporalValue, first statement: getTemporalPropertiesGroup
RaceGroup(p) ==
    /\ posts[p].pc = "checked"
    /\ \E datetime_group \in getTemporalPropertiesGroup(tproperties, RaceCid, RaceFid, posts[p].datetimes) :
           posts' = [posts EXCEPT ![p].pc = "grouped",
                                  ![p].datetime_group = datetime_group]
    /\ UNCHANGED <<paramVars, storeVars, reads, ioVars>>

\* postTemporalValue, second statement: the INSERT; then the 201 response
RaceInsert(p) ==
    /\ posts[p].pc = "grouped"
    /\ tproperties' = AddRow(tproperties, RaceRow(posts[p].datetime_group, posts[p].datetimes))
    /\ posts' = [posts EXCEPT ![p].pc = "done", ![p].status = 201,
                              ![p].inserted = TRUE]
    /\ UNCHANGED <<paramVars, collection, mfeature, tgeometry, nextId, session, resp, deleted, reads, ioVars>>

\* a GET of the value sequences of the property
RaceRead ==
    /\ LET mine == {r \in Rows(tproperties) : /\ r.collection_id = RaceCid
                                              /\ r.mfeature_id = RaceFid
                                              /\ r.tproperties_name = RaceName}
       IN reads' = [rows |-> [r \in mine |-> tproperties[r]],
                    after |-> {q \in Requests : posts[q].pc = "done"}]
    /\ reads' # reads
    /\ UNCHANGED <<paramVars, storeVars, posts, ioVars>>

\* the feature exists with one stored sequence of the property; the
\* requests arrive together, each with one of the timestamp sets of the
\* bodies or with {MaxPropT}, which is disjoint from {1} and from {2}
InitRace ==
    /\ ParamsIdle
    /\ collection = {RaceCid}
    /\ mfeature = {[collection_id |-> RaceCid, mfeature_id |-> RaceFid]}
    /\ tgeometry = {[collection_id |-> RaceCid, mfeature_id |-> RaceFid, tgeometry_id |-> RaceGid]}
    /\ \E d \in DatetimeSets : tproperties = AddRow(EmptyBag, RaceRow(1, d))
    /\ nextId = RaceGid + 1
    /\ session = "none"
    /\ resp = NoResp
    /\ deleted = [collections |-> {}, features |-> {}]
    /\ posts \in [Requests -> {[pc |-> "start", datetimes |-> d, status |-> 0, datetime_group |-> 0, inserted |-> FALSE, before |-> {}] : d \in DatetimeSets \cup {{MaxPropT}}}]
    /\ reads = NoRead
    /\ IoIdle

NextRace ==
    \/ \E p \in Requests : RaceLookup(p)
    \/ \E p \in Requests : RaceCheck(p)
    \/ \E p \in Requests : RaceGroup(p)
    \/ \E p \in Requests : RaceInsert(p)
    \/ RaceRead

SpecRace == InitRace /\ [][NextRace]_vars

(***************************************************************************)
(* One POST to /collections/{cid}/items with a valid format and the        *)
(* storage up; posts is the JSON body.  A JSON object is a record with the *)
(* set of its keys and the values of the keys it has.  In this             *)
(* specification an mfeature row carries its lifespan and a tgeometry row  *)
(* the instants of its samples                                             *)
(***************************************************************************)
\* the bodies: a Feature object, whose type, time and temporalGeometry may
\* each be missing and whose temporalGeometry may lack its datetimes, or a
\* FeatureCollection of such features.  A time member is two timestamps
\* with their offsets: the second list is out of order, the third is in
\* order as instants and out of order as written
ItemBodies ==
    LET t(local, off) == [lo |-> local, hi |-> local, aware |-> TRUE, off |-> off]
        Lifespans == {<<t(0, 0), t(1, 0)>>, <<t(1, 0), t(0, 0)>>, <<t(2, 1), t(1, 0)>>}
        prism == [keys |-> {"type", "datetimes", "coordinates"}, datetimes |-> {MaxT}]
        MovingFeatures ==
            {f \in [keys : SUBSET {"type", "time", "temporalGeometry"}, type : {"Feature"}, time : Lifespans,
                    temporalGeometry : {prism, [keys |-> {"type", "coordinates"}, datetimes |-> {}]},
                    features : {<<>>}] :
                /\ "time" \notin f.keys => f.time = <<t(0, 0), t(1, 0)>>
                /\ "temporalGeometry" \notin f.keys => f.temporalGeometry = prism}
    IN MovingFeatures \cup
       {[keys |-> {"type", "features"} \cup k, type |-> "FeatureCollection",
         time |-> <<t(0, 0), t(1, 0)>>, temporalGeometry |-> prism, features |-> fs]
        : k \in SUBSET {"temporalGeometry"},
          fs \in UNION {[1..n -> MovingFeatures] : n \in 1..MaxEntries}}

checkRequiredFieldFeature(feature) ==
    /\ "type" \in feature.keys /\ "temporalGeometry" \in feature.keys
    \* checkRequiredFieldTemporalGeometry_Single
    /\ {"type", "datetimes", "coordinates"} \subseteq feature.temporalGeometry.keys

\* the two timestamps of the text of the period, none ('') when begin > end
validate_lifespan(datetime_) ==
    LET datetime_begin == StampUTC(dateparse_begin(datetime_[1]))
        datetime_end == StampUTC(dateparse_end(datetime_[Len(datetime_)]))
    IN IF datetime_invalid(datetime_begin, datetime_end) THEN <<>>
       ELSE <<strftime(datetime_begin), strftime(datetime_end)>>

\* postMovingFeature on the tables st: the INSERT of the mfeature row, which
\* the database refuses for the period '[]' and for a period whose lower
\* bound is after its upper bound, then postTemporalGeometry, which raises
\* on a temporalGeometry that cannot be read; every statement that ran is
\* committed
postMovingFeature(st, collection_id, movingfeature) ==
    LET lifespan == IF "time" \in movingfeature.keys THEN validate_lifespan(movingfeature.time) ELSE <<"NULL">>
        row == [collection_id |-> collection_id, mfeature_id |-> st.nextId, lifespan |-> lifespan]
        prism == [collection_id |-> collection_id, mfeature_id |-> st.nextId,
                  tgeometry_id |-> st.nextId + 1, samples |-> movingfeature.temporalGeometry.datetimes]
    IN IF Len(lifespan) = 0 THEN [st EXCEPT !.raised = TRUE]
       ELSE IF Len(lifespan) = 2 /\ lifespan[1] > lifespan[2] THEN [st EXCEPT !.raised = TRUE]
       ELSE IF "temporalGeometry" \notin movingfeature.keys
       THEN [st EXCEPT !.mfeature = @ \cup {row}, !.nextId = @ + 2]
       ELSE IF "datetimes" \notin movingfeature.temporalGeometry.keys
       THEN [st EXCEPT !.mfeature = @ \cup {row}, !.nextId = @ + 2, !.raised = TRUE]
       ELSE [st EXCEPT !.mfeature = @ \cup {row}, !.tgeometry = @ \cup {prism}, !.nextId = @ + 2]

\* manage_collection_item(request, 'create', dataset): the required-field
\* check of the body, then postMovingFeature of the body or of each member
\* of data['features'], up to the first that raises
PostItemBody ==
    /\ resp = NoResp
    /\ LET r == [NoResp EXCEPT !.op = "post_item", !.cid = RaceCid]
           RECURSIVE postEachFeature(_, _, _)
           postEachFeature(st, features, i) ==
               IF i > Len(features) \/ st.raised THEN st
               ELSE postEachFeature(postMovingFeature(st, RaceCid, features[i]), features, i + 1)
           st == postEachFeature([mfeature |-> mfeature, tgeometry |-> tgeometry, nextId |-> nextId, raised |-> FALSE],
                                 IF posts.type = "FeatureCollection" THEN posts.features ELSE <<posts>>, 1)
       IN IF ~checkRequiredFieldFeature(posts)
          THEN /\ resp' = get_exception(r, 501, "MissingParameterValue")
               /\ session' = "none"
               /\ UNCHANGED <<mfeature, tgeometry, nextId>>
          ELSE /\ mfeature' = st.mfeature
               /\ tgeometry' = st.tgeometry
               /\ nextId' = st.nextId
               /\ session' = "closed"
               /\ resp' = IF st.raised THEN ConnectingError(r) ELSE Answer(r, 201)
    /\ UNCHANGED <<paramVars, collection, tproperties, deleted, auxVars>>

InitItem ==
    /\ ParamsIdle
    /\ collection = {RaceCid}
    /\ mfeature = {} /\ tgeometry = {} /\ tproperties = EmptyBag
    /\ nextId = RaceCid + 1
    /\ session = "none"
    /\ resp = NoResp
    /\ deleted = [collections |-> {}, features |-> {}]
    /\ posts \in ItemBodies
    /\ reads = NoValue
    /\ IoIdle
SpecItem == InitItem /\ [][PostItemBody]_vars

(***************************************************************************)
(* One POST to .../tProperties of the feature, with a valid format and the *)
(* storage up; posts is the temporalProperties list of its body            *)
(***************************************************************************)
\* manage_collection_item_tProperty(request, 'create', ...): the conflict
\* check over the whole body, then one postTemporalProperties per entry
PostTPropertiesBody ==
    /\ resp = NoResp
    /\ LET r == [NoResp EXCEPT !.op = "post_tproperties", !.cid = RaceCid, !.fid = RaceFid]
           canPost == checkIfTemporalPropertyCanPost(tproperties, RaceCid, RaceFid, posts, NoName)
       IN IF canPost
          THEN /\ tproperties' \in postEach({tproperties}, RaceCid, RaceFid, posts, 1)
               /\ resp' = Answer(r, 201)
          ELSE /\ UNCHANGED tproperties
               /\ resp' = Answer(r, 400)
    /\ session' = "closed"
    /\ UNCHANGED <<paramVars, collection, mfeature, tgeometry, nextId, deleted, auxVars>>

\* the feature holds one sequence of the property a
InitBody ==
    /\ ParamsIdle
    /\ collection = {RaceCid}
    /\ mfeature = {[collection_id |-> RaceCid, mfeature_id |-> RaceFid]}
    /\ tgeometry = {[collection_id |-> RaceCid, mfeature_id |-> RaceFid, tgeometry_id |-> RaceGid]}
    /\ \E d \in DatetimeSets : tproperties = AddRow(EmptyBag, RaceRow(1, d))
    /\ nextId = RaceGid + 1
    /\ session = "none"
    /\ resp = NoResp
    /\ deleted = [collections |-> {}, features |-> {}]
    /\ posts \in Bodies \ {<<>>}
    /\ reads = NoValue
    /\ IoIdle
SpecBody == InitBody /\ [][PostTPropertiesBody]_vars

(***************************************************************************)
(* POSTs of a feature or of a temporal geometry handled while a DELETE of  *)
(* the collection or of the feature is handled: every request has its own  *)
(* session in autocommit mode, so the statements of the requests           *)
(* interleave one by one.  posts holds the position of each POST, reads    *)
(* the position of the DELETE.  The tables are as the statements of the    *)
(* source use them: no statement of a POST reads the parent row again      *)
(***************************************************************************)
\* getListOfCollectionsId() or getListOfFeaturesId() on a session of its
\* own, and the NotFound test
OrphanCheck(p) ==
    /\ posts[p].pc = "start"
    /\ LET found == IF posts[p].kind = "item" THEN RaceCid \in getCollectionsList
                    ELSE <<RaceCid, RaceFid>> \in getFeaturesList
       IN posts' = [posts EXCEPT ![p].pc = IF found THEN "checked" ELSE "done",
                                 ![p].status = IF found THEN 0 ELSE 404]
    /\ UNCHANGED <<paramVars, storeVars, reads, ioVars>>

\* the next INSERT of the POST: postMovingFeature inserts the mfeature row
\* and then, by postTemporalGeometry, the tgeometry row; a POST of a
\* temporal geometry inserts the tgeometry row; then the 201 response
OrphanInsert(p) ==
    /\ posts[p].pc \in {"checked", "feature"}
    /\ IF posts[p].kind = "item" /\ posts[p].pc = "checked"
       THEN /\ mfeature' = mfeature \cup {[collection_id |-> RaceCid, mfeature_id |-> nextId]}
            /\ posts' = [posts EXCEPT ![p].pc = "feature", ![p].fid = nextId]
            /\ UNCHANGED tgeometry
       ELSE /\ tgeometry' = tgeometry \cup {[collection_id |-> RaceCid, mfeature_id |-> posts[p].fid, tgeometry_id |-> nextId]}
            /\ posts' = [posts EXCEPT ![p].pc = "done", ![p].status = 201]
            /\ UNCHANGED mfeature
    /\ nextId' = nextId + 1
    /\ UNCHANGED <<paramVars, collection, tproperties, session, resp, deleted, reads, ioVars>>

\* the next statement of deleteCollection("AND collection_id = ...") or of
\* deleteMovingFeature("AND mfeature_id = ...")
OrphanDelete ==
    /\ reads.pc < (IF reads.kind = "collection" THEN 4 ELSE 3)
    /\ LET table == IF reads.kind = "collection"
                    THEN <<"tgeometry", "tproperties", "mfeature", "collection">>[reads.pc + 1]
                    ELSE <<"tproperties", "tgeometry", "mfeature">>[reads.pc + 1]
           hit(r) == IF reads.kind = "collection" THEN r.collection_id = RaceCid
                     ELSE r.mfeature_id = RaceFid
       IN /\ tgeometry' = IF table = "tgeometry" THEN {r \in tgeometry : ~hit(r)} ELSE tgeometry
          /\ tproperties' = IF table = "tproperties"
                            THEN DeleteRows(tproperties, {r \in Rows(tproperties) : hit(r)})
                            ELSE tproperties
          /\ mfeature' = IF table = "mfeature" THEN {r \in mfeature : ~hit(r)} ELSE mfeature
          /\ collection' = IF table = "collection" THEN collection \ {RaceCid} ELSE collection
    /\ reads' = [reads EXCEPT !.pc = @ + 1]
    /\ UNCHANGED <<paramVars, nextId, session, resp, deleted, posts, ioVars>>

\* the collection holds one feature with a temporal geometry and a temporal
\* property; the POSTs and the DELETE arrive together
InitOrphan ==
    /\ ParamsIdle
    /\ collection = {RaceCid}
    /\ mfeature = {[collection_id |-> RaceCid, mfeature_id |-> RaceFid]}
    /\ tgeometry = {[collection_id |-> RaceCid, mfeature_id |-> RaceFid, tgeometry_id |-> RaceGid]}
    /\ tproperties = AddRow(EmptyBag, RaceRow(1, {1}))
    /\ nextId = RaceGid + 1
    /\ session = "none"
    /\ resp = NoResp
    /\ deleted = [collections |-> {}, features |-> {}]
    /\ posts \in [Requests -> [kind : {"item", "tgeometry"}, pc : {"start"}, status : {0}, fid : {RaceFid}]]
    /\ reads \in [kind : {"collection", "feature"}, pc : {0}]
    /\ IoIdle

NextOrphan ==
    \/ \E p \in Requests : OrphanCheck(p)
    \/ \E p \in Requests : OrphanInsert(p)
    \/ OrphanDelete

SpecOrphan == InitOrphan /\ [][NextOrphan]_vars

(***************************************************************************)
(* Properties of the parameter validators                                  *)
(***************************************************************************)
\* a list of 4 or 6 numbers with min <= max in every axis
BboxWellFormed(v) ==
    /\ Len(v) \in {4, 6}
    /\ \A i \in 1..Len(v) : IsFloat(v[i])
    /\ LET h == Len(v) \div 2 IN
       \A i \in 1..h : /\ Float(v[i]) # NaN
                       /\ Float(v[i + h]) # NaN
                       /\ Float(v[i]) <= Float(v[i + h])

\* C1: validate_bbox accepts exactly the lists of 4 or 6 numbers whose
\* minimum is <= the maximum in every axis and returns the same numbers in
\* the same order; for every other input the controller answers
\* 400 InvalidParameterValue.
C1_ValidateBbox ==
    bboxOut.status # -1 =>
        IF BboxWellFormed(bboxIn)
        THEN /\ bboxOut.status = 0
             /\ bboxOut.bbox = [i \in 1..Len(bboxIn) |-> Float(bboxIn[i])]
        ELSE /\ bboxOut.status = 400
             /\ bboxOut.code = "InvalidParameterValue"

\* C2: on an interval 'start/end', with naive sides read as UTC, the
\* datetime step answers 400 InvalidParameterValue if begin > end and
\* accepts every interval with begin <= end.
C2_IntervalOrder ==
    (dtIn.kind = "interval" /\ dtOut.status # -1) =>
        /\ dtIn.b.k = "inst" =>
               Utc(dtOut.begin) = dtIn.b.tok.lo - dtIn.b.tok.off
        /\ dtIn.e.k = "inst" =>
               Utc(dtOut.end) = dtIn.e.tok.hi - dtIn.e.tok.off
        /\ IF Utc(dtOut.begin) > Utc(dtOut.end)
           THEN dtOut.status = 400 /\ dtOut.code = "InvalidParameterValue"
           ELSE dtOut.status = 0

\* an interval whose two sides are written with different offsets and denote
\* the same instant has been accepted
C2_Witness ==
    /\ dtIn.kind = "interval" /\ dtIn.b.k = "inst" /\ dtIn.e.k = "inst"
    /\ dtIn.b.tok.off # dtIn.e.tok.off
    /\ dtOut.status = 0
    /\ Utc(dtOut.begin) = Utc(dtOut.end)

\* C3: an empty or '..' start is the minimum representable instant and an
\* empty or '..' end the maximum representable instant, so every request
\* 't/', 't/..', '/t', '../t' with a parsable instant t is accepted and its
\* interval contains t.
C3_OpenSides ==
    (dtIn.kind = "interval" /\ dtOut.status # -1) =>
        /\ dtIn.b.k # "inst" => Utc(dtOut.begin) = DatetimeMin
        /\ dtIn.e.k # "inst" => Utc(dtOut.end) = DatetimeMax
        /\ (dtIn.b.k = "inst") # (dtIn.e.k = "inst") =>
               /\ dtOut.status = 0
               /\ Utc(dtOut.begin) <= Utc(dtOut.end)

\* C4: a leaf list t1,...,tn is accepted if and only if t1 < ... < tn as
\* UTC instants (naive instants read as UTC); otherwise the leaf step
\* answers 400 InvalidParameterValue.
C4_LeafAscending ==
    leafOut.status # -1 =>
        LET inst(i) == leafIn[i].lo - leafIn[i].off
            ascending == \A i \in 1..(Len(leafIn) - 1) : inst(i) < inst(i + 1)
        IN IF ascending THEN leafOut.status = 0
           ELSE leafOut.status = 400 /\ leafOut.code = "InvalidParameterValue"

\* a list whose first two entries denote the same instant has been refused
C4_Witness ==
    /\ Len(leafIn) >= 2
    /\ leafIn[1].lo - leafIn[1].off = leafIn[2].lo - leafIn[2].off
    /\ leafOut.status = 400

(***************************************************************************)
(* Properties of the controllers and of the store                          *)
(***************************************************************************)
\* C5: on the temporal-geometry list endpoint and on the temporal-property
\* value endpoint, a request for an existing resource that carries a leaf
\* together with subTrajectory=true (subTemporalValue=true) is answered
\* 400 InvalidParameterValue and no data query is executed for it.
C5_LeafExcludesSub ==
    (resp.op \in {"get_tgeometries", "get_tproperty_value"}
         /\ resp.leaf /\ resp.sub) =>
        /\ resp.status = 400
        /\ resp.code = "InvalidParameterValue"
        /\ ~resp.queried
        /\ session = "none"

\* a value request with leaf and subTemporalValue=true has been refused
C5_Witness ==
    /\ resp.op = "get_tproperty_value"
    /\ resp.leaf /\ resp.sub
    /\ resp.status = 400

\* C6: every session a request opens is released before the request
\* returns, on every path, in read handlers as well as in write handlers.
C6_SessionsReleased == session # "open"

\* C7: after DELETE /collections/{cid} answered 204 the store holds no
\* collection, feature, temporal geometry or temporal property row of cid,
\* and every later GET of the collection or of a feature it contained that
\* the storage answers is 404 NotFound.
C7_CascadeDelete ==
    /\ \A c \in deleted.collections :
           /\ c \notin collection
           /\ \A r \in mfeature : r.collection_id # c
           /\ \A r \in tgeometry : r.collection_id # c
           /\ \A r \in Rows(tproperties) : r.collection_id # c
    /\ (resp.op = "get_collection" /\ resp.cid \in deleted.collections
            /\ resp.valid /\ resp.code # "ConnectingError") =>
           resp.status = 404 /\ resp.code = "NotFound"
    /\ (resp.op = "get_collection_item"
            /\ <<resp.cid, resp.fid>> \in deleted.features
            /\ resp.valid /\ resp.code # "ConnectingError") =>
           resp.status = 404 /\ resp.code = "NotFound"

\* a feature of a deleted collection has been asked for and was not found
C7_Witness ==
    /\ resp.op = "get_collection_item"
    /\ <<resp.cid, resp.fid>> \in deleted.features
    /\ resp.status = 404

\* the closed extents [min, max] of two timestamp sets have a point in common
ExtentsMeet(d1, d2) ==
    \E t \in PropTimes :
        /\ \E x \in d1 : x <= t
        /\ \E x \in d1 : t <= x
        /\ \E y \in d2 : y <= t
        /\ \E y \in d2 : t <= y

\* C8: a POST of a value sequence to an existing .../tProperties/{name} that
\* the storage serves: if its datetimes overlap a sequence stored for the
\* same (collection, feature, name) the answer is 400 and nothing is
\* inserted; otherwise exactly that sequence is inserted and the answer is
\* 201.
C8_ValuePost ==
    [][(resp'.op = "post_tproperty_value" /\ resp'.code = "") =>
          LET conflict ==
                  \E r \in Rows(tproperties) :
                      /\ r.collection_id = resp'.cid
                      /\ r.mfeature_id = resp'.fid
                      /\ r.tproperties_name = resp'.name
                      /\ ExtentsMeet(r.datetimes, resp'.datetimes)
          IN IF conflict
             THEN resp'.status = 400 /\ tproperties' = tproperties
             ELSE /\ resp'.status = 201
                  /\ \E g \in 1..MaxGroup :
                         tproperties' =
                             AddRow(tproperties,
                                    [collection_id |-> resp'.cid,
                                     mfeature_id |-> resp'.fid,
                                     tproperties_name |-> resp'.name,
                                     datetime_group |-> g,
                                     datetimes |-> resp'.datetimes])]_vars

\* a sequence lying inside the period of a stored one, without sharing a
\* timestamp with it, has been refused
C8_Witness ==
    /\ resp.op = "post_tproperty_value"
    /\ resp.status = 400 /\ resp.code = ""
    /\ resp.datetimes = {2}
    /\ \E r \in Rows(tproperties) :
           /\ r.collection_id = resp.cid /\ r.mfeature_id = resp.fid
           /\ r.tproperties_name = resp.name
           /\ r.datetimes = {1, MaxPropT}

\* C9: in every reachable state no two stored value sequences of the same
\* (collection_id, mfeature_id, name) have overlapping time periods.
C9_DisjointSequences ==
    \A r1 \in Rows(tproperties), r2 \in Rows(tproperties) :
        (/\ r1.collection_id = r2.collection_id
         /\ r1.mfeature_id = r2.mfeature_id
         /\ r1.tproperties_name = r2.tproperties_name
         /\ (r1 # r2 \/ tproperties[r1] >= 2)) =>
            ~ExtentsMeet(r1.datetimes, r2.datetimes)

\* C10: a sequence inserted into feature (c, f) gets the datetime_group of a
\* stored sequence of (c, f) with exactly the same timestamp set if there is
\* one, and otherwise the next group after the largest of (c, f), which is 1
\* when (c, f) has none; sequences inserted with the same timestamps, like
\* the names of one entry, share their group.
C10_GroupAssignment ==
    [][LET new == {r \in Rows(tproperties') :
                      CopiesIn(r, tproperties') > CopiesIn(r, tproperties)}
           old(r) == {o \in Rows(tproperties) :
                         /\ o.collection_id = r.collection_id
                         /\ o.mfeature_id = r.mfeature_id}
           same(r) == {o \in old(r) : o.datetimes = r.datetimes}
           top(r) == IF old(r) = {} THEN 0
                     ELSE SetMax({o.datetime_group : o \in old(r)})
           fresh(r) == {n.datetimes : n \in {x \in new :
                            /\ x.collection_id = r.collection_id
                            /\ x.mfeature_id = r.mfeature_id
                            /\ same(x) = {}}}
       IN /\ \A r \in new :
                 IF same(r) # {}
                 THEN r.datetime_group \in {o.datetime_group : o \in same(r)}
                 ELSE /\ r.datetime_group > top(r)
                      /\ r.datetime_group <= top(r) + Cardinality(fresh(r))
          /\ \A r1 \in new, r2 \in new :
                 (/\ r1.collection_id = r2.collection_id
                  /\ r1.mfeature_id = r2.mfeature_id) =>
                     ((r1.datetimes = r2.datetimes)
                          <=> (r1.datetime_group = r2.datetime_group))]_vars

\* two names posted to a feature with the same timestamps share a group
C10_Witness ==
    /\ resp.op = "post_tproperties" /\ resp.status = 201
    /\ \E r1 \in Rows(tproperties), r2 \in Rows(tproperties) :
           /\ r1.collection_id = r2.collection_id
           /\ r1.mfeature_id = r2.mfeature_id
           /\ r1.tproperties_name # r2.tproperties_name
           /\ r1.datetimes = r2.datetimes
           /\ r1.datetime_group = r2.datetime_group

(***************************************************************************)
(* Properties of concurrent requests                                       *)
(***************************************************************************)
RaceStored(p, q) ==
    LET rp == RaceRow(posts[p].datetime_group, posts[p].datetimes)
        rq == RaceRow(posts[q].datetime_group, posts[q].datetimes)
    IN IF rp = rq THEN CopiesIn(rp, tproperties) >= 2
       ELSE CopiesIn(rp, tproperties) >= 1 /\ CopiesIn(rq, tproperties) >= 1

RaceSeen(p, q) ==
    LET rp == RaceRow(posts[p].datetime_group, posts[p].datetimes)
        rq == RaceRow(posts[q].datetime_group, posts[q].datetimes)
    IN IF rp = rq THEN CopiesIn(rp, reads.rows) >= 2
       ELSE CopiesIn(rp, reads.rows) >= 1 /\ CopiesIn(rq, reads.rows) >= 1

\* C11: two concurrent POSTs of overlapping sequences to the same
\* (collection, feature, name) are both answered 201 exactly in the
\* interleavings where each conflict check ran before the other's insert;
\* then both sequences are stored and every later read returns both.
C11_CheckThenInsertRace ==
    \A p \in Requests, q \in Requests :
        (/\ p # q
         /\ posts[p].status = 201 /\ posts[q].status = 201
         /\ ExtentsMeet(posts[p].datetimes, posts[q].datetimes)) =>
            /\ q \notin posts[p].before
            /\ p \notin posts[q].before
            /\ RaceStored(p, q)
            /\ {p, q} \subseteq reads.after => RaceSeen(p, q)

\* both requests were answered 201 with overlapping sequences and a later
\* read returned the two of them
C11_Witness ==
    \E p \in Requests, q \in Requests :
        /\ p # q
        /\ posts[p].status = 201 /\ posts[q].status = 201
        /\ ExtentsMeet(posts[p].datetimes, posts[q].datetimes)
        /\ {p, q} \subseteq reads.after
        /\ RaceSeen(p, q)

MediaType(t) == strip(split_first(t))
KnownAt(accept) == {k \in DOMAIN accept : \E i \in DOMAIN mimes : MediaType(accept[k]) = mimes[i]}

C14_FormatCheckedFirst ==
    [][(resp = NoResp /\ resp' # NoResp /\ ~resp'.valid) =>
           /\ resp'.status = 400
           /\ resp'.code = "InvalidParameterValue"
           /\ session' = "none"
           /\ UNCHANGED <<tables, nextId>>]_vars

\* C15: every request whose path names a collection, a feature, a temporal
\* geometry or a property name that is not stored is answered 404 NotFound
\* and changes no table, whatever its method.
C15_UnknownPathNotFound ==
    [][(/\ resp = NoResp /\ resp' # NoResp
        /\ resp'.missing
        /\ resp'.valid /\ resp'.code # "ConnectingError") =>
           /\ resp'.status = 404
           /\ resp'.code = "NotFound"
           /\ UNCHANGED tables]_vars

\* C16: on every create and update endpoint an empty body is answered 400
\* MissingParameterValue, a body that is not JSON 400 InvalidParameterValue,
\* a JSON body without the required fields 501 MissingParameterValue, and
\* in the three cases no table changes.
C16_BodyErrors ==
    [][(resp = NoResp /\ resp' # NoResp /\ resp'.body # "") =>
           /\ resp'.body = "empty" =>
                  resp'.status = 400 /\ resp'.code = "MissingParameterValue"
           /\ resp'.body = "notjson" =>
                  resp'.status = 400 /\ resp'.code = "InvalidParameterValue"
           /\ resp'.body = "incomplete" =>
                  resp'.status = 501 /\ resp'.code = "MissingParameterValue"
           /\ UNCHANGED <<tables, nextId>>]_vars

(***************************************************************************)
(* Properties of the list endpoints                                        *)
(***************************************************************************)
\* C17: every page a list endpoint answers, whatever the bbox, datetime,
\* limit, offset and subTrajectory / subTemporalValue, reports a
\* numberReturned that is at most limit and at most numberMatched, and one
\* numberMatched for all the pages of a listing: the count of the rows the
\* filters select, whatever the offset.
C17_PageCounts ==
    \A i \in DOMAIN listOut :
        ~listOut[i].error =>
            /\ listOut[i].numberReturned <= listIn.limit
            /\ listOut[i].numberReturned <= listOut[i].numberMatched
            /\ listOut[i].numberMatched = listOut[1].numberMatched
            /\ listOut[i].numberMatched - listOut[i].offset <= listIn.limit
                   => listOut[i].numberReturned + listOut[i].offset >= listOut[i].numberMatched

\* a page was cut by the limit: fewer rows returned than matched
C17_Witness ==
    \E i \in DOMAIN listOut :
        /\ ~listOut[i].error
        /\ listOut[i].numberReturned = listIn.limit
        /\ listOut[i].numberReturned < listOut[i].numberMatched

\* C18: with the store unchanged, the pages of a listing asked at offsets
\* 0, limit, 2*limit, ... are pairwise disjoint and together hold every
\* matching item.
C18_PagesPartition ==
    (/\ listIn # NoValue /\ listIn.start = 0 /\ listOut # <<>>
     /\ ~listOut[1].error
     /\ Len(listOut) * listIn.limit >= listOut[1].numberMatched) =>
        /\ \A i \in DOMAIN listOut, j \in DOMAIN listOut :
               i # j => listOut[i].ids \cap listOut[j].ids = {}
        /\ Cardinality(UNION {listOut[i].ids : i \in DOMAIN listOut}) = listOut[1].numberMatched

C20_RoundTrip ==
    (geomIn # NoValue /\ Len(geomOut) = 2) =>
        LET g == geomIn
            h == geomOut[2]
            Z(s) == IF s # <<>> /\ s[Len(s)] = "Z" THEN SubSeq(s, 1, Len(s) - 1) ELSE s
            Step(x) == IF x = "Stepwise" THEN "Step" ELSE x
        IN /\ DOMAIN h = DOMAIN g
           /\ \A k \in (DOMAIN g \cap DOMAIN h) \ {"datetimes", "interpolation"} : h[k] = g[k]
           /\ "interpolation" \in DOMAIN g \cap DOMAIN h => Step(h["interpolation"]) = Step(g["interpolation"])
           /\ Len(h["datetimes"]) = Len(g["datetimes"])
           /\ \A i \in DOMAIN g["datetimes"] : Z(h["datetimes"][i]) = Z(g["datetimes"][i])

\* C22: a list request whose parameters passed validation, on a storage
\* that is up, is never answered with ConnectingError, whatever its
\* subTrajectory / subTemporalValue and datetime.
C22_NoConnectingError ==
    \A i \in DOMAIN listOut : ~listOut[i].error

\* C29: in every list response numberReturned is the length of the array
\* returned (features, prisms or temporalProperties), also with
\* subTrajectory = true and subTemporalValue = true.
C29_NumberReturnedIsLength ==
    \A i \in DOMAIN listOut :
        ~listOut[i].error => listOut[i].numberReturned = listOut[i].elements

\* C30: whenever validate_datetime accepts an interval, the two timestamps
\* of the text 'begin,end' it emits are ordered as the instants it compared:
\* the first is not later than the second, also when the two sides of the
\* request carry different UTC offsets.
C30_EmittedTextOrdered ==
    (dtIn.kind = "interval" /\ dtOut.status = 0) =>
        /\ dtOut.text[1] <= dtOut.text[2]
        /\ dtOut.text[1] = Utc(dtOut.begin)
        /\ dtOut.text[2] = Utc(dtOut.end)

\* C27: in every state reached by concurrent POSTs of temporal properties
\* to one (collection, feature), two stored sequences share a
\* datetime_group only if their timestamp sets are identical.
C27_GroupSharedOnlyBySameTimestamps ==
    \A r1 \in Rows(tproperties), r2 \in Rows(tproperties) :
        (/\ r1.collection_id = r2.collection_id /\ r1.mfeature_id = r2.mfeature_id
         /\ r1.datetime_group = r2.datetime_group) => r1.datetimes = r2.datetimes

(***************************************************************************)
(* The scope of the DELETE requests                                        *)
(***************************************************************************)
\* C24: DELETE /collections/{cid}/items/{fid} removes exactly the feature
\* fid of collection cid with its temporal geometries and temporal
\* properties and leaves every collection and every other feature and its
\* children unchanged; DELETE .../tgsequence/{tgid} removes at most one
\* temporal geometry, one of feature (cid, fid), and nothing else.
C24_DeleteItemScope ==
    [][/\ (resp'.op = "delete_item" /\ resp'.status = 204) =>
              /\ collection' = collection
              /\ mfeature' = mfeature \ {[collection_id |-> resp'.cid, mfeature_id |-> resp'.fid]}
              /\ tgeometry' = {g \in tgeometry : ~(g.collection_id = resp'.cid /\ g.mfeature_id = resp'.fid)}
              /\ tproperties' = DeleteRows(tproperties,
                     {x \in Rows(tproperties) : x.collection_id = resp'.cid /\ x.mfeature_id = resp'.fid})
       /\ (resp'.op = "delete_tgeometry" /\ resp'.status = 204) =>
              /\ collection' = collection /\ mfeature' = mfeature /\ tproperties' = tproperties
              /\ tgeometry' \subseteq tgeometry
              /\ Cardinality(tgeometry \ tgeometry') <= 1
              /\ \A g \in tgeometry \ tgeometry' :
                     g.collection_id = resp'.cid /\ g.mfeature_id = resp'.fid]_vars

\* C25: DELETE /collections/{cid}/items/{fid}/tProperties/{name} removes
\* only value sequences named name of feature (cid, fid); the temporal
\* properties of every other feature are left unchanged.
C25_DeleteTPropertyScope ==
    [][(resp'.op = "delete_tproperty" /\ resp'.status = 204) =>
           /\ collection' = collection /\ mfeature' = mfeature /\ tgeometry' = tgeometry
           /\ \A x \in Rows(tproperties) :
                  (x.collection_id = resp'.cid /\ x.mfeature_id = resp'.fid /\ x.tproperties_name = resp'.name)
                  \/ (x \in Rows(tproperties') /\ tproperties'[x] = tproperties[x])]_vars

\* C23: POST .../tProperties with a body of several entries answers 201
\* only if no entry, first or later, overlaps a stored sequence of one of
\* its own property names, and a request answered 400 inserts nothing.
C23_EveryEntryChecked ==
    [][/\ (resp'.op = "post_tproperties" /\ resp'.status = 201) =>
              \A i \in DOMAIN posts : \A n \in Range(posts[i].keys) :
                  ~\E x \in Rows(tproperties) :
                      /\ x.collection_id = resp'.cid /\ x.mfeature_id = resp'.fid
                      /\ x.tproperties_name = n
                      /\ PeriodsOverlap(x.datetimes, posts[i].datetimes)
       /\ (resp'.op = "post_tproperties" /\ resp'.status = 400) => tproperties' = tproperties]_vars

(***************************************************************************)
(* Properties of the body of POST .../items                                *)
(***************************************************************************)
\* C21: every stored moving feature with a lifespan has lifespan.lower <=
\* lifespan.upper, and the lifespan contains every instant of every
\* temporal geometry stored under the feature.
C21_LifespanContains ==
    \A f \in mfeature :
        ("lifespan" \in DOMAIN f /\ Len(f.lifespan) = 2) =>
            /\ f.lifespan[1] <= f.lifespan[2]
            /\ \A g \in tgeometry :
                   (g.collection_id = f.collection_id /\ g.mfeature_id = f.mfeature_id) =>
                       \A t \in g.samples : f.lifespan[1] <= t /\ t <= f.lifespan[2]

\* C28: POST .../items inserts something only if every moving feature of
\* the body (the body itself, or each member of 'features' when the body is
\* a FeatureCollection) has 'type' and a well-formed 'temporalGeometry';
\* otherwise the answer is 501 MissingParameterValue and nothing is
\* inserted.
C28_MembersChecked ==
    [][(resp'.op = "post_item" /\ posts \in ItemBodies) =>
           LET handed == IF posts.type = "FeatureCollection" THEN Range(posts.features) ELSE {posts}
               passes(f) == /\ {"type", "temporalGeometry"} \subseteq f.keys
                            /\ {"type", "datetimes", "coordinates"} \subseteq f.temporalGeometry.keys
           IN (\E f \in handed : ~passes(f)) =>
                  /\ resp'.status = 501 /\ resp'.code = "MissingParameterValue"
                  /\ mfeature' = mfeature /\ tgeometry' = tgeometry]_vars

\* C26: in every state reached by concurrent requests every stored moving
\* feature refers to an existing collection and every stored temporal
\* geometry and temporal property refers to an existing moving feature.
C26_Containment ==
    /\ \A f \in mfeature : f.collection_id \in collection
    /\ \A g \in tgeometry : <<g.collection_id, g.mfeature_id>> \in getFeaturesList
    /\ \A v \in Rows(tproperties) : <<v.collection_id, v.mfeature_id>> \in getFeaturesList

====
